---- MODULE Spec2Model ----
(***************************************************************************)
(* geko: order-preserving Map / Pairs / List and their JSON codec.        *)
(*                                                                         *)
(* The Map is modelled as the record [order, inner, innerIsNil,           *)
(* duplicatedKeyStrategy]: `order` is the slice of keys, `inner` the Go   *)
(* map (a function whose DOMAIN is the set of stored keys) and innerIsNil *)
(* tells a nil Go map from an allocated one.  Every method is an operator *)
(* translated from its Go body; every action performs one whole call and  *)
(* leaves a call record in `last`, which the caller consumes (Return)     *)
(* before the next call.                                                   *)
(*                                                                         *)
(* The sources hold two revisions of Map.Add / Map.Delete:                *)
(*   - src/unnamed/part_014 lines 1-326   (operators Map_...), Spec       *)
(*   - src/map.go lines 191-497           (operators MapGo_...), SpecMapGo *)
(***************************************************************************)
EXTENDS Integers, Sequences, FiniteSets, TLC

VARIABLES m, last, revision, codec, pairList, plast, valueList, vlast, race, run

vars == <<m, last, revision, codec, pairList, plast, valueList, vlast, race, run>>

(***************************************************************************)
(* Bounds of the model.                                                    *)
(***************************************************************************)
NumKeys == 3
MaxPairs == 2

\* K = int: the keys 1..NumKeys.  V = int: its zero value and one other value.
Keys == 1..NumKeys
ZeroValue == 0
Vals == {ZeroValue, ZeroValue + 1}

\* Cap on len(order): only the map.go revision of Add can grow the slice
\* past the number of keys.
MaxOrder == NumKeys + 1

(***************************************************************************)
(* DuplicatedKeyStrategy (uint8 enum).  One value past Ignore stands for   *)
(* every out-of-range value: they all take the `default` branch of Add.    *)
(***************************************************************************)
UpdateValueKeepOrder == 0
UpdateValueUpdateOrder == 1
KeepValueUpdateOrder == 2
Ignore == 3
Strategies == UpdateValueKeepOrder..(Ignore + 1)
NamedStrategies == UpdateValueKeepOrder..Ignore

(***************************************************************************)
(* Pair and the caller-supplied functions.                                 *)
(***************************************************************************)
CreatePair(k, v) == [Key |-> k, Value |-> v]

PairSet == {CreatePair(k, v) : k \in Keys, v \in Vals}

RECURSIVE SeqsUpTo(_, _)
SeqsUpTo(S, n) ==
    IF n = 0 THEN {<<>>}
    ELSE LET shorter == SeqsUpTo(S, n - 1)
         IN shorter \cup {Append(s, x) : s \in {t \in shorter : Len(t) = n - 1}, x \in S}

PairSeqs == SeqsUpTo(PairSet, MaxPairs)

\* PairLessFunc: the less functions the callers of Sort pass in.
LessFuncs == {"keyAsc", "keyDesc", "valueAsc"}

PairLessFunc(less, a, b) ==
    CASE less = "keyAsc" -> a.Key < b.Key
      [] less = "keyDesc" -> a.Key > b.Key
      [] less = "valueAsc" -> a.Value < b.Value

\* PairFilterFunc: the predicates the callers of Filter pass in.
FilterFuncs ==
    {[by |-> "key", keep |-> S] : S \in SUBSET Keys}
        \cup {[by |-> "value", keep |-> S] : S \in SUBSET Vals}

\* "keyIsNot" and "keyIs" are the closures `p.Key != key` and `p.Key == key`
\* the two revisions of Delete on a pair list pass to Filter.
PairFilterFunc(pred, pair) ==
    CASE pred.by = "key" -> pair.Key \in pred.keep
      [] pred.by = "value" -> pair.Value \in pred.keep
      [] pred.by = "keyIsNot" -> pair.Key \notin pred.keep
      [] pred.by = "keyIs" -> pair.Key \in pred.keep

(***************************************************************************)
(* Go slice helpers.                                                       *)
(***************************************************************************)
\* append(s[:i], s[i+1:]...) for a 0-based index i in range.
\* Mutant of RemoveAt: the last element is moved into the gap.
RemoveAt_SwapLast(s, i) ==
    IF i + 1 = Len(s) THEN SubSeq(s, 1, i)
    ELSE SubSeq(s, 1, i) \o <<s[Len(s)]>> \o SubSeq(s, i + 2, Len(s) - 1)

RemoveAt(s, i) == SubSeq(s, 1, i) \o SubSeq(s, i + 2, Len(s))

\* s[low:high] on a slice of capacity cap panics unless 0 <= low <= high <= cap
SliceExprInRange(low, high, cap) == 0 <= low /\ low <= high /\ high <= cap

\* Mutant of DeleteAtInRange: the index len(s) is let through.
DeleteAtInRange_UpToLen(s, index, cap) == 0 <= index /\ index <= Len(s)

\* append(s[:index], s[index+1:]...): both slice expressions are evaluated
\* before append is called; cap is the capacity of the backing array of s
DeleteAtInRange(s, index, cap) ==
    /\ SliceExprInRange(0, index, cap)
    /\ SliceExprInRange(index + 1, Len(s), cap)

\* the capacities the backing array of a slice can have
Capacities(s) == Len(s)..(Len(s) + 1)

\* index (0-based) of the first occurrence of x in s, or -1.
RECURSIVE IndexFrom(_, _, _)
IndexFrom(s, x, i) ==
    IF i >= Len(s) THEN -1
    ELSE IF s[i + 1] = x THEN i
    ELSE IndexFrom(s, x, i + 1)

\* delete(inner, key)
MapDelete(inner, key) == [k \in (DOMAIN inner) \ {key} |-> inner[k]]

\* inner[key] = value
MapStore(inner, key, value) ==
    [k \in (DOMAIN inner) \cup {key} |-> IF k = key THEN value ELSE inner[k]]

EmptyInner == [k \in {} |-> ZeroValue]

(***************************************************************************)
(* Map (src/unnamed/part_014, lines 1-326).                                *)
(***************************************************************************)
NewMap ==
    [order |-> <<>>, inner |-> EmptyInner, innerIsNil |-> TRUE,
     duplicatedKeyStrategy |-> UpdateValueKeepOrder]

NewMapWithCapacity ==
    [NewMap EXCEPT !.innerIsNil = FALSE]

Map_SetDuplicatedKeyStrategy(mp, strategy) ==
    [mp EXCEPT !.duplicatedKeyStrategy = strategy]

Map_Has(mp, key) == key \in DOMAIN mp.inner

Map_GetOrZeroValue(mp, key) ==
    IF key \in DOMAIN mp.inner THEN mp.inner[key] ELSE ZeroValue

Map_Len(mp) == Cardinality(DOMAIN mp.inner)

\* m.order[index] panics unless 0 <= index < len(m.order)
IndexInRange(s, index) == 0 <= index /\ index < Len(s)

Map_GetKeyByIndex(mp, index) == mp.order[index + 1]

Map_GetValueByIndex(mp, index) ==
    Map_GetOrZeroValue(mp, Map_GetKeyByIndex(mp, index))

Map_GetByIndex(mp, index) ==
    LET k == Map_GetKeyByIndex(mp, index)
    IN CreatePair(k, Map_GetOrZeroValue(mp, k))

\* Mutant of Map_set: the key is appended to the order also when it exists.
Map_set_AlwaysAppends(mp, key, value, alreadyExist) ==
    [mp EXCEPT !.innerIsNil = FALSE,
               !.order = Append(mp.order, key),
               !.inner = MapStore(mp.inner, key, value)]

\* Mutant of Map_makeInner: a nil hash table is left nil.
Map_makeInner_Never(mp) == mp

\* if m.inner == nil { m.inner = make(map[K]V) }
Map_makeInner(mp) ==
    IF mp.innerIsNil THEN [mp EXCEPT !.inner = EmptyInner, !.innerIsNil = FALSE] ELSE mp

Map_set(mp, key, value, alreadyExist) ==
    LET made == Map_makeInner(mp)
    IN [made EXCEPT !.order = IF ~alreadyExist THEN Append(mp.order, key) ELSE mp.order,
                    !.inner = MapStore(made.inner, key, value)]

\* `m.inner[key] = value` panics when m.inner is nil: the map a call leaves
\* has entries in a hash table that was never made
StoredIntoNil(mp) == mp.innerIsNil /\ mp.inner # EmptyInner

Map_Set(mp, key, value) == Map_set(mp, key, value, Map_Has(mp, key))

\* Mutant of Map_Delete: the key leaves the order, its entry stays in the
\* hash table.
Map_Delete_OrderOnly(mp, key) ==
    IF ~(key \in DOMAIN mp.inner) THEN mp
    ELSE LET i == IndexFrom(mp.order, key, 0)
         IN [mp EXCEPT !.order = IF i >= 0 THEN RemoveAt(mp.order, i) ELSE mp.order]

\* Mutant of Map_Delete: swap-delete, the last key is moved into the hole.
Map_Delete_SwapLast(mp, key) ==
    IF ~(key \in DOMAIN mp.inner) THEN mp
    ELSE LET i == IndexFrom(mp.order, key, 0)
             n == Len(mp.order)
         IN [mp EXCEPT !.order = IF i >= 0
                                 THEN SubSeq([mp.order EXCEPT ![i + 1] = mp.order[n]],
                                             1, n - 1)
                                 ELSE mp.order,
                       !.inner = MapDelete(mp.inner, key)]

Map_Delete(mp, key) ==
    IF ~(key \in DOMAIN mp.inner) THEN mp
    ELSE LET i == IndexFrom(mp.order, key, 0)
         IN [mp EXCEPT !.order = IF i >= 0 THEN RemoveAt(mp.order, i) ELSE mp.order,
                       !.inner = MapDelete(mp.inner, key)]

\* Mutant of Map_Add: KeepValueUpdateOrder stores the new value.
Map_Add_KeepValueTakesNew(mp, key, value) ==
    CASE mp.duplicatedKeyStrategy = UpdateValueUpdateOrder ->
            Map_set(Map_Delete(mp, key), key, value, FALSE)
      [] mp.duplicatedKeyStrategy = KeepValueUpdateOrder ->
            Map_set(Map_Delete(mp, key), key, value, FALSE)
      [] mp.duplicatedKeyStrategy = Ignore ->
            IF Map_Has(mp, key) THEN mp ELSE Map_set(mp, key, value, FALSE)
      [] OTHER ->
            Map_set(mp, key, value, Map_Has(mp, key))

\* Mutant of Map_Add: Ignore does not return on a present key.
Map_Add_IgnoreStores(mp, key, value) ==
    CASE mp.duplicatedKeyStrategy = UpdateValueUpdateOrder ->
            Map_set(Map_Delete(mp, key), key, value, FALSE)
      [] mp.duplicatedKeyStrategy = KeepValueUpdateOrder ->
            IF Map_Has(mp, key)
            THEN Map_set(Map_Delete(mp, key), key, mp.inner[key], FALSE)
            ELSE Map_set(mp, key, value, FALSE)
      [] mp.duplicatedKeyStrategy = Ignore ->
            Map_set(mp, key, value, Map_Has(mp, key))
      [] OTHER ->
            Map_set(mp, key, value, Map_Has(mp, key))

\* Mutant of Map_Add: UpdateValueUpdateOrder leaves the key in its place
\* like UpdateValueKeepOrder.
Map_Add_UpdateOrderKeepsPlace(mp, key, value) ==
    CASE mp.duplicatedKeyStrategy = KeepValueUpdateOrder ->
            IF Map_Has(mp, key)
            THEN Map_set(Map_Delete(mp, key), key, mp.inner[key], FALSE)
            ELSE Map_set(mp, key, value, FALSE)
      [] mp.duplicatedKeyStrategy = Ignore ->
            IF Map_Has(mp, key) THEN mp ELSE Map_set(mp, key, value, FALSE)
      [] OTHER ->
            Map_set(mp, key, value, Map_Has(mp, key))

\* Mutant of Map_Add: UpdateValueKeepOrder moves the key like
\* UpdateValueUpdateOrder.
Map_Add_KeepOrderMoves(mp, key, value) ==
    CASE mp.duplicatedKeyStrategy = KeepValueUpdateOrder ->
            IF Map_Has(mp, key)
            THEN Map_set(Map_Delete(mp, key), key, mp.inner[key], FALSE)
            ELSE Map_set(mp, key, value, FALSE)
      [] mp.duplicatedKeyStrategy = Ignore ->
            IF Map_Has(mp, key) THEN mp ELSE Map_set(mp, key, value, FALSE)
      [] OTHER ->
            Map_set(Map_Delete(mp, key), key, value, FALSE)

Map_Add(mp, key, value) ==
    CASE mp.duplicatedKeyStrategy = UpdateValueKeepOrder ->
            Map_set(mp, key, value, Map_Has(mp, key))
      [] mp.duplicatedKeyStrategy = UpdateValueUpdateOrder ->
            Map_set(Map_Delete(mp, key), key, value, FALSE)
      [] mp.duplicatedKeyStrategy = KeepValueUpdateOrder ->
            IF Map_Has(mp, key)
            THEN Map_set(Map_Delete(mp, key), key, mp.inner[key], FALSE)
            ELSE Map_set(mp, key, value, FALSE)
      [] mp.duplicatedKeyStrategy = Ignore ->
            IF Map_Has(mp, key) THEN mp ELSE Map_set(mp, key, value, FALSE)
      [] OTHER ->
            \* default: fallthrough (into case UpdateValueKeepOrder)
            Map_set(mp, key, value, Map_Has(mp, key))

RECURSIVE Map_AppendFrom(_, _, _)
Map_AppendFrom(mp, pairs, i) ==
    IF i > Len(pairs) THEN mp
    ELSE Map_AppendFrom(Map_Add(mp, pairs[i].Key, pairs[i].Value), pairs, i + 1)

\* Mutant of Map_Append: the pairs are stored with Set.
RECURSIVE Map_Append_BySetFrom(_, _, _)
Map_Append_BySetFrom(mp, pairs, i) ==
    IF i > Len(pairs) THEN mp
    ELSE Map_Append_BySetFrom(Map_Set(mp, pairs[i].Key, pairs[i].Value), pairs, i + 1)

Map_Append_BySet(mp, pairs) == Map_Append_BySetFrom(mp, pairs, 1)

Map_Append(mp, pairs) == Map_AppendFrom(mp, pairs, 1)

(***************************************************************************)
(* Map.Delete, Map.Add and Map.Append as src/map.go (lines 191-497) has    *)
(* them.  Its other methods are those above.                               *)
(***************************************************************************)
MapGo_Delete(mp, key) ==
    IF ~(key \in DOMAIN mp.inner) THEN mp
    ELSE LET i == IndexFrom(mp.order, key, 0)
         IN IF i >= 0
            THEN \* m.DeleteByIndex(i); return
                 [mp EXCEPT !.order = RemoveAt(mp.order, i),
                            !.inner = MapDelete(mp.inner, mp.order[i + 1])]
            ELSE mp

MapGo_Add(mp, key, value) ==
    CASE mp.duplicatedKeyStrategy = UpdateValueKeepOrder ->
            Map_set(mp, key, value, Map_Has(mp, key))
      [] mp.duplicatedKeyStrategy = UpdateValueUpdateOrder ->
            Map_set(MapGo_Delete(mp, key), key, value, FALSE)
      [] mp.duplicatedKeyStrategy = KeepValueUpdateOrder ->
            IF Map_Has(mp, key)
            THEN Map_set(MapGo_Delete(mp, key), key, mp.inner[key], FALSE)
            ELSE Map_set(mp, key, value, FALSE)
      [] mp.duplicatedKeyStrategy = Ignore ->
            IF Map_Has(mp, key) THEN mp ELSE Map_set(mp, key, value, FALSE)
      [] OTHER ->
            \* `default:` has an empty body and Go does not fall through:
            \* alreadyExist keeps its zero value false.
            Map_set(mp, key, value, FALSE)

RECURSIVE MapGo_AppendFrom(_, _, _)
MapGo_AppendFrom(mp, pairs, i) ==
    IF i > Len(pairs) THEN mp
    ELSE MapGo_AppendFrom(MapGo_Add(mp, pairs[i].Key, pairs[i].Value), pairs, i + 1)

MapGo_Append(mp, pairs) == MapGo_AppendFrom(mp, pairs, 1)

\* The positional and bulk methods can panic (index out of range); they
\* return the map as the panic leaves it together with the panic flag.
Outcome(mp, panicked) == [m |-> mp, panic |-> panicked]

Map_DeleteByIndex(mp, index) ==
    IF ~IndexInRange(mp.order, index) THEN Outcome(mp, TRUE)
    ELSE LET key == mp.order[index + 1]
         IN Outcome([mp EXCEPT !.order = RemoveAt(mp.order, index),
                               !.inner = MapDelete(mp.inner, key)], FALSE)

Map_Clear(mp) ==
    [mp EXCEPT !.order = <<>>, !.inner = EmptyInner, !.innerIsNil = TRUE]

\* Pairs{List}: the wrapper of a slice of Pair.
NewPairs == [List |-> <<>>]

Pairs_Len(ps) == Len(ps.List)

Pairs_GetByIndex(ps, index) == ps.List[index + 1]

\* Mutant of Pairs_Add: a key that is present has its first entry replaced.
Pairs_Add_ReplacesPresent(ps, key, value) ==
    LET i == IndexFrom([j \in 1..Len(ps.List) |-> ps.List[j].Key], key, 0)
    IN IF i >= 0 THEN [ps EXCEPT !.List[i + 1] = CreatePair(key, value)]
       ELSE [ps EXCEPT !.List = Append(ps.List, CreatePair(key, value))]

Pairs_Add(ps, key, value) == [ps EXCEPT !.List = Append(ps.List, CreatePair(key, value))]

\* Pairs(): the Pairs built and whether GetByIndex panicked on the way.
RECURSIVE Map_PairsFrom(_, _, _, _)
Map_PairsFrom(mp, pairs, i, length) ==
    IF i >= length THEN [pairs |-> pairs, panic |-> FALSE]
    ELSE IF ~IndexInRange(mp.order, i) THEN [pairs |-> pairs, panic |-> TRUE]
    ELSE Map_PairsFrom(mp, [pairs EXCEPT !.List = Append(pairs.List, Map_GetByIndex(mp, i))],
                       i + 1, length)

Map_Pairs(mp) == Map_PairsFrom(mp, NewPairs, 0, Map_Len(mp))

\* Keys(): make([]K, Len()) and copy(keys, m.order): the first Len() keys of
\* the order, the zero key where the order is shorter.
ZeroKey == 0

Map_Keys(mp) ==
    [i \in 1..Map_Len(mp) |-> IF i <= Len(mp.order) THEN mp.order[i] ELSE ZeroKey]

\* Values(): the values at the indexes 0..Len()-1, and whether
\* GetValueByIndex panicked on the way.
RECURSIVE Map_ValuesFrom(_, _, _, _)
Map_ValuesFrom(mp, values, i, length) ==
    IF i >= length THEN [values |-> values, panic |-> FALSE]
    ELSE IF ~IndexInRange(mp.order, i) THEN [values |-> values, panic |-> TRUE]
    ELSE Map_ValuesFrom(mp, Append(values, Map_GetByIndex(mp, i).Value), i + 1, length)

Map_Values(mp) == Map_ValuesFrom(mp, <<>>, 0, Map_Len(mp))

\* A slice handed out to the caller: its elements, and whether it shares
\* its array with m.order.  Keys() makes a new []K, Values() a new []V and
\* Pairs() a new Pairs; of the three only a []K could be m.order itself.
Slice(elems, shared) == [elems |-> elems, shared |-> shared]

\* Mutant of Map_KeysSlice: m.order itself is handed out.
Map_KeysSlice_Order(mp) == Slice(mp.order, TRUE)

Map_KeysSlice(mp) == Slice(Map_Keys(mp), FALSE)

Map_ValuesSlice(mp) == Slice(Map_Values(mp).values, FALSE)

Map_PairsSlice(mp) == Slice(Map_Pairs(mp).pairs.List, FALSE)

\* What the caller does with a slice s it was handed: s[i] = x,
\* s = append(s, x), s = append(s[:i], s[i+1:]...).
ChangeSlice(elems, change) ==
    CASE change.kind = "overwrite" -> [elems EXCEPT ![change.index + 1] = change.elem]
      [] change.kind = "append" -> Append(elems, change.elem)
      [] change.kind = "delete" -> RemoveAt(elems, change.index)

\* The same change seen through another slice of length n on the same
\* array: an overwrite is seen, an append writes behind the n elements, a
\* delete moves the elements behind the index one place down.
SeenThrough(elems, change) ==
    CASE change.kind = "overwrite" -> [elems EXCEPT ![change.index + 1] = change.elem]
      [] change.kind = "append" -> elems
      [] change.kind = "delete" ->
            [i \in 1..Len(elems) |->
                IF i > change.index /\ i < Len(elems) THEN elems[i + 1] ELSE elems[i]]

\* sort.SliceStable: a stable sort of the slice by less.
RECURSIVE InsertStable(_, _, _, _)
\* Mutant of InsertStable: a pair goes in front of the pairs that less does
\* not order against it.
InsertStable_BeforeEquals(sorted, p, less, j) ==
    IF j > Len(sorted) THEN Append(sorted, p)
    ELSE IF ~PairLessFunc(less, sorted[j], p)
         THEN SubSeq(sorted, 1, j - 1) \o <<p>> \o SubSeq(sorted, j, Len(sorted))
         ELSE InsertStable(sorted, p, less, j + 1)

InsertStable(sorted, p, less, j) ==
    IF j > Len(sorted) THEN Append(sorted, p)
    ELSE IF PairLessFunc(less, p, sorted[j])
         THEN SubSeq(sorted, 1, j - 1) \o <<p>> \o SubSeq(sorted, j, Len(sorted))
         ELSE InsertStable(sorted, p, less, j + 1)

RECURSIVE SliceStableFrom(_, _, _, _)
SliceStableFrom(list, sorted, less, i) ==
    IF i > Len(list) THEN sorted
    ELSE SliceStableFrom(list, InsertStable(sorted, list[i], less, 1), less, i + 1)

Pairs_Sort(ps, less) == [ps EXCEPT !.List = SliceStableFrom(ps.List, <<>>, less, 1)]

Map_Sort(mp, less) ==
    LET pairs == Map_Pairs(mp)
    IN IF pairs.panic THEN Outcome(mp, TRUE)
       ELSE LET sorted == Pairs_Sort(pairs.pairs, less).List
                length == Map_Len(mp)
            IN Outcome([mp EXCEPT !.order =
                            [i \in 1..Len(mp.order) |->
                                IF i <= length THEN sorted[i].Key ELSE mp.order[i]]],
                       FALSE)

RECURSIVE Map_FilterFrom(_, _, _, _, _)
Map_FilterFrom(mp, pred, i, n, length) ==
    IF i >= length THEN Outcome([mp EXCEPT !.order = SubSeq(mp.order, 1, n)], FALSE)
    ELSE IF ~IndexInRange(mp.order, i) THEN Outcome(mp, TRUE)
    ELSE LET pair == Map_GetByIndex(mp, i)
         IN IF PairFilterFunc(pred, pair)
            THEN Map_FilterFrom([mp EXCEPT !.order[n + 1] = mp.order[i + 1]],
                                pred, i + 1, n + 1, length)
            ELSE Map_FilterFrom([mp EXCEPT !.inner = MapDelete(mp.inner, pair.Key)],
                                pred, i + 1, n, length)

\* Mutant of Map_Filter: the rejected keys leave the order, their entries
\* stay in the hash table.
Map_Filter_OrderOnly(mp, pred) ==
    LET out == Map_FilterFrom(mp, pred, 0, 0, Map_Len(mp))
    IN Outcome([out.m EXCEPT !.inner = mp.inner], out.panic)

Map_Filter(mp, pred) == Map_FilterFrom(mp, pred, 0, 0, Map_Len(mp))

(***************************************************************************)
(* Pairs (src/pairs.go) and its older revision PairList (src/pair_list.go). *)
(***************************************************************************)
\* Cap on len(List) in the calls made.
MaxList == MaxPairs + 1

RECURSIVE Pairs_HasFrom(_, _, _)
Pairs_HasFrom(pl, key, i) ==
    IF i >= Len(pl.List) THEN FALSE
    ELSE IF key = pl.List[i + 1].Key THEN TRUE
    ELSE Pairs_HasFrom(pl, key, i + 1)

Pairs_Has(pl, key) == Pairs_HasFrom(pl, key, 0)

RECURSIVE Pairs_CountFrom(_, _, _, _)
Pairs_CountFrom(pl, key, i, n) ==
    IF i >= Len(pl.List) THEN n
    ELSE Pairs_CountFrom(pl, key, i + 1, IF key = pl.List[i + 1].Key THEN n + 1 ELSE n)

Pairs_Count(pl, key) == Pairs_CountFrom(pl, key, 0, 0)

\* Get: the values of the pairs with the key, appended in a walk from the front
RECURSIVE Pairs_GetFrom(_, _, _, _)
Pairs_GetFrom(pl, key, i, values) ==
    IF i >= Len(pl.List) THEN values
    ELSE Pairs_GetFrom(pl, key, i + 1,
                       IF key = pl.List[i + 1].Key
                       THEN Append(values, pl.List[i + 1].Value) ELSE values)

Pairs_Get(pl, key) == Pairs_GetFrom(pl, key, 0, <<>>)

RECURSIVE Pairs_GetFirstFrom(_, _, _)
Pairs_GetFirstFrom(pl, key, i) ==
    IF i >= Len(pl.List) THEN ZeroValue
    ELSE IF key = pl.List[i + 1].Key THEN pl.List[i + 1].Value
    ELSE Pairs_GetFirstFrom(pl, key, i + 1)

Pairs_GetFirstOrZeroValue(pl, key) == Pairs_GetFirstFrom(pl, key, 0)

RECURSIVE Pairs_GetLastFrom(_, _, _)
Pairs_GetLastFrom(pl, key, i) ==
    IF i < 0 THEN ZeroValue
    ELSE IF key = pl.List[i + 1].Key THEN pl.List[i + 1].Value
    ELSE Pairs_GetLastFrom(pl, key, i - 1)

\* Mutant of Pairs_GetLastOrZeroValue: the list is searched from the front.
Pairs_GetLastOrZeroValue_FromFront(pl, key) == Pairs_GetFirstFrom(pl, key, 0)

Pairs_GetLastOrZeroValue(pl, key) == Pairs_GetLastFrom(pl, key, Pairs_Len(pl) - 1)

Pairs_Append(pl, pairs) == [pl EXCEPT !.List = pl.List \o pairs]

Pairs_SetByIndex(pl, index, key, value) ==
    IF ~IndexInRange(pl.List, index) THEN [ps |-> pl, panic |-> TRUE]
    ELSE [ps |-> [pl EXCEPT !.List[index + 1] = CreatePair(key, value)], panic |-> FALSE]

Pairs_GetKeyByIndex(pl, index) == pl.List[index + 1].Key

Pairs_GetValueByIndex(pl, index) == pl.List[index + 1].Value

Pairs_SetKeyByIndex(pl, index, key) ==
    IF ~IndexInRange(pl.List, index) THEN [ps |-> pl, panic |-> TRUE]
    ELSE [ps |-> [pl EXCEPT !.List[index + 1].Key = key], panic |-> FALSE]

Pairs_SetValueByIndex(pl, index, value) ==
    IF ~IndexInRange(pl.List, index) THEN [ps |-> pl, panic |-> TRUE]
    ELSE [ps |-> [pl EXCEPT !.List[index + 1].Value = value], panic |-> FALSE]

Pairs_DeleteByIndex(pl, index, cap) ==
    IF ~DeleteAtInRange(pl.List, index, cap) THEN [ps |-> pl, panic |-> TRUE]
    ELSE [ps |-> [pl EXCEPT !.List = RemoveAt(pl.List, index)], panic |-> FALSE]

\* Filter: the kept pairs are moved to the front of the slice, which is
\* then cut to their number.
RECURSIVE Pairs_FilterFrom(_, _, _, _, _)
Pairs_FilterFrom(pl, pred, i, n, length) ==
    IF i >= length THEN [pl EXCEPT !.List = SubSeq(pl.List, 1, n)]
    ELSE IF PairFilterFunc(pred, pl.List[i + 1])
         THEN Pairs_FilterFrom([pl EXCEPT !.List[n + 1] = pl.List[i + 1]],
                               pred, i + 1, n + 1, length)
         ELSE Pairs_FilterFrom(pl, pred, i + 1, n, length)

Pairs_Filter(pl, pred) == Pairs_FilterFrom(pl, pred, 0, 0, Pairs_Len(pl))

Pairs_Delete(pl, key) == Pairs_Filter(pl, [by |-> "keyIsNot", keep |-> {key}])

\* src/pair_list.go: the predicate is `p.Key == key`.
PairList_Delete(pl, key) == Pairs_Filter(pl, [by |-> "keyIs", keep |-> {key}])

\* Mutant of Pairs_ToMap: the pairs are stored with Set.
Pairs_ToMap_BySet(pl, strategy) ==
    Map_Append_BySet(Map_SetDuplicatedKeyStrategy(NewMap, strategy), pl.List)

Pairs_ToMap(pl, strategy) ==
    Map_Append(Map_SetDuplicatedKeyStrategy(NewMap, strategy), pl.List)

\* src/pair_list.go: the Map is the one of src/map.go.
PairList_ToMap(pl, strategy) ==
    MapGo_Append(Map_SetDuplicatedKeyStrategy(NewMap, strategy), pl.List)

\* Mutant of Pairs_Dedup: the map is built with the default strategy.
Pairs_Dedup_DefaultStrategy(pl, strategy) ==
    LET pairs == Map_Pairs(Pairs_ToMap(pl, UpdateValueKeepOrder))
    IN [ps |-> IF pairs.panic THEN pl ELSE [pl EXCEPT !.List = pairs.pairs.List],
        panic |-> pairs.panic]

Pairs_Dedup(pl, strategy) ==
    LET pairs == Map_Pairs(Pairs_ToMap(pl, strategy))
    IN [ps |-> IF pairs.panic THEN pl ELSE [pl EXCEPT !.List = pairs.pairs.List],
        panic |-> pairs.panic]

PairList_Dedup(pl, strategy) ==
    LET pairs == Map_Pairs(PairList_ToMap(pl, strategy))
    IN [ps |-> IF pairs.panic THEN pl ELSE [pl EXCEPT !.List = pairs.pairs.List],
        panic |-> pairs.panic]

(***************************************************************************)
(* List{List}: the wrapper of a slice.                                     *)
(***************************************************************************)
NewList == [List |-> <<>>]

List_Len(l) == Len(l.List)

ListOutcome(l, value, panicked) == [l |-> l, value |-> value, panic |-> panicked]

List_Get(l, index) ==
    IF IndexInRange(l.List, index)
    THEN ListOutcome(l, l.List[index + 1], FALSE)
    ELSE ListOutcome(l, ZeroValue, TRUE)

List_Set(l, index, value) ==
    IF IndexInRange(l.List, index)
    THEN ListOutcome([l EXCEPT !.List[index + 1] = value], ZeroValue, FALSE)
    ELSE ListOutcome(l, ZeroValue, TRUE)

List_Append(l, values) == [l EXCEPT !.List = l.List \o values]

List_Delete(l, index, cap) ==
    IF DeleteAtInRange(l.List, index, cap)
    THEN ListOutcome([l EXCEPT !.List = RemoveAt(l.List, index)], ZeroValue, FALSE)
    ELSE ListOutcome(l, ZeroValue, TRUE)

(***************************************************************************)
(* JSON text.  A text is a sequence of lexemes [t, v]: the punctuation     *)
(* "{" "}" "[" "]" ":" ",", a string (t = "str", v names the string), a    *)
(* number (t = "num", v names its literal), null, and the white space "nl" *)
(* (the newline that json.Encoder.Encode writes after every value).        *)
(***************************************************************************)
MaxMembers == 3

\* the strings that occur as member names; "" is what `key, _ :=
\* token.(string)` gives for a token that is no string
Names == {1, 2}
EmptyString == ZeroKey

\* Number literals.  The literal 2n is the shortest literal of the number n
\* ("1"), the literal 2n+1 another literal of the same number ("1.0").
\* float64 keeps the number, json.Number keeps the literal.
NumberValues == {1, 2, 3}
Shortest(n) == n + n
Longer(n) == n + n + 1
ParseFloat(literal) == literal \div 2
FormatFloat(n) == Shortest(n)
Nums == {Shortest(n) : n \in NumberValues} \cup {Longer(1)}

Lex(t, v) == [t |-> t, v |-> v]
NL == Lex("nl", 0)

\* JSON documents as trees, and their compact text.
JNum(n) == [j |-> "num", n |-> n]
JObj(members) == [j |-> "obj", members |-> members]
JArr(elems) == [j |-> "arr", elems |-> elems]
JNull == [j |-> "null"]
Member(name, value) == [name |-> name, value |-> value]

RECURSIVE Text(_)
RECURSIVE TextMembers(_, _)
RECURSIVE TextElems(_, _)
Text(doc) ==
    CASE doc.j = "num" -> <<Lex("num", doc.n)>>
      [] doc.j = "obj" -> <<Lex("{", 0)>> \o TextMembers(doc.members, 1) \o <<Lex("}", 0)>>
      [] doc.j = "arr" -> <<Lex("[", 0)>> \o TextElems(doc.elems, 1) \o <<Lex("]", 0)>>
      [] doc.j = "null" -> <<Lex("null", 0)>>

TextMembers(members, i) ==
    IF i > Len(members) THEN <<>>
    ELSE (IF i > 1 THEN <<Lex(",", 0)>> ELSE <<>>)
            \o <<Lex("str", members[i].name), Lex(":", 0)>>
            \o Text(members[i].value)
            \o TextMembers(members, i + 1)

TextElems(elems, i) ==
    IF i > Len(elems) THEN <<>>
    ELSE (IF i > 1 THEN <<Lex(",", 0)>> ELSE <<>>)
            \o Text(elems[i])
            \o TextElems(elems, i + 1)

\* the same text with white space after every lexeme
RECURSIVE Spaced(_)
Spaced(text) ==
    IF text = <<>> THEN <<>> ELSE <<Head(text), NL>> \o Spaced(Tail(text))

Layouts == {"compact", "spaced"}
Layout(layout, text) == IF layout = "spaced" THEN Spaced(text) ELSE text

FlatMembers == {Member(k, JNum(n)) : k \in Names, n \in Nums}
FlatObjects == {JObj(ms) : ms \in SeqsUpTo(FlatMembers, MaxMembers)}

\* The documents decoded: a number, a flat object, a shorter flat object as
\* the only member of an object or as the only element of an array, and
\* such an array as the only member of an object.
NestedObjects == {JObj(ms) : ms \in SeqsUpTo(FlatMembers, MaxMembers - 1)}

\* What a caller leaves behind the top-level value: nothing, a further
\* value, a comma, a closing or an opening delimiter.
Trailers ==
    {<<>>, <<Lex("num", Shortest(1))>>, <<Lex(",", 0)>>, <<Lex("}", 0)>>, <<Lex("[", 0)>>}

\* the documents that are decoded with something behind them too
TrailedDocuments ==
    {JNum(n) : n \in Nums}
        \cup {JObj(ms) : ms \in SeqsUpTo(FlatMembers, 1)}
        \cup {JArr(<<JObj(<<>>)>>)}

TrailersOf(doc) == IF doc \in TrailedDocuments THEN Trailers ELSE {<<>>}

\* the documents decoded into a Map or Pairs whose key type is not string
KeyTypeDocuments ==
    {JObj(<<>>), JObj(<<Member(1, JNum(Shortest(1)))>>), JNum(Shortest(1))}

\* the documents decoded into a List whose element type is float64
NumberArrays == {JArr(<<>>)} \cup {JArr(<<JNum(n)>>) : n \in Nums}

Documents ==
    {JNum(n) : n \in Nums}
        \cup FlatObjects
        \cup {JObj(<<Member(k, o)>>) : k \in Names, o \in NestedObjects}
        \cup {JArr(<<o>>) : o \in NestedObjects}
        \cup {JObj(<<Member(k, JArr(<<o>>))>>) : k \in Names, o \in NestedObjects}

(***************************************************************************)
(* Decoder (src/json.go).                                                  *)
(***************************************************************************)
\* decodeOptions and the DecodeOption functions
\* The zero value of the options.  The revision of src/json.go has the
\* field usePairs, the revision of src/unnamed/part_000 the field useObject;
\* each revision reads its own field only.
DefaultDecodeOptions ==
    [useNumber |-> FALSE, usePairs |-> FALSE, useObject |-> FALSE,
     duplicatedKeyStrategy |-> UpdateValueKeepOrder]

UseNumber(opts, v) == [opts EXCEPT !.useNumber = v]
UsePairs(opts, v) == [opts EXCEPT !.usePairs = v]
OnDuplicatedKey(opts, strategy) == [opts EXCEPT !.duplicatedKeyStrategy = strategy]

DecodeOptionSets ==
    {OnDuplicatedKey(UsePairs(UseNumber(DefaultDecodeOptions, n), p), s) :
        n \in BOOLEAN, p \in BOOLEAN, s \in Strategies}

\* src/unnamed/part_000: UseObject(), UseObjectItem(), ObjectOnDuplicatedKey(strategy)
UseObject(opts) == [opts EXCEPT !.useObject = TRUE]
UseObjectItem(opts) == [opts EXCEPT !.useObject = FALSE]
ObjectOnDuplicatedKey(opts, strategy) == [opts EXCEPT !.duplicatedKeyStrategy = strategy]

DecodeOptionSets000 ==
    {ObjectOnDuplicatedKey(o, s) :
        o \in {UseObjectItem(UseNumber(DefaultDecodeOptions, n)) : n \in BOOLEAN} \cup
              {UseObject(UseNumber(DefaultDecodeOptions, n)) : n \in BOOLEAN},
        s \in Strategies}

\* the decode options a caller of the revision can pass
DecodeOptionSetsOf ==
    IF revision = "part_000" THEN DecodeOptionSets000 ELSE DecodeOptionSets

\* `if d.opts.usePairs` in src/json.go, the else branch of
\* `if d.opts.useObject` in src/unnamed/part_000
ObjectsArePairs(opts) ==
    IF revision = "part_000" THEN ~opts.useObject ELSE opts.usePairs

\* d.useNumber: json.Decoder.UseNumber() has been called on d.decoder
\* d.tokenState, d.tokenStack: where json.Decoder.Token is in the grammar,
\* and the states of the arrays and objects it has entered and not left
newDecoder(data, opts) ==
    [data |-> data, pos |-> 1, opts |-> opts, useNumber |-> FALSE,
     tokenState |-> "tokenTopValue", tokenStack |-> <<>>]

\* the values a decode yields
Nil == [kind |-> "nil"]
Delim(c) == [kind |-> "Delim", delim |-> c]
IsDelim(token, c) == token.kind = "Delim" /\ token.delim = c

\* json.Decoder.tokenValueAllowed: a value may begin here
tokenValueAllowed(d) ==
    d.tokenState \in {"tokenTopValue", "tokenArrayStart", "tokenArrayValue",
                      "tokenObjectValue"}

\* json.Decoder.tokenValueEnd: the state after a value
tokenValueEnd(state) ==
    CASE state \in {"tokenArrayStart", "tokenArrayValue"} -> "tokenArrayComma"
      [] state = "tokenObjectValue" -> "tokenObjectComma"
      [] OTHER -> state

tokenError(d) == [token |-> Nil, err |-> "SyntaxError", d |-> d]

\* the decoder after an opening delimiter, and after a closing one
tokenPush(d, state) ==
    [d EXCEPT !.pos = d.pos + 1, !.tokenState = state,
              !.tokenStack = Append(d.tokenStack, d.tokenState)]

tokenPop(d) ==
    [d EXCEPT !.pos = d.pos + 1,
              !.tokenState = tokenValueEnd(d.tokenStack[Len(d.tokenStack)]),
              !.tokenStack = SubSeq(d.tokenStack, 1, Len(d.tokenStack) - 1)]

\* the decoder after a scalar
tokenValue(d) ==
    [d EXCEPT !.pos = d.pos + 1, !.tokenState = tokenValueEnd(d.tokenState)]

\* Mutant of endOfText: the end of the text is read as one more null.
endOfText_Null(d) == [token |-> Nil, err |-> "nil", d |-> d]

\* json.Decoder.Token at the end of the text: the error io.EOF
endOfText(d) == [token |-> Nil, err |-> "EOF", d |-> d]

\* the value of a scalar lexeme: float64 or json.Number, string, nil
tokenScalar(lx, d) ==
    CASE lx.t = "num" ->
            IF d.useNumber THEN [kind |-> "Number", n |-> lx.v]
            ELSE [kind |-> "float64", n |-> ParseFloat(lx.v)]
      [] lx.t = "str" -> [kind |-> "string", s |-> lx.v]
      [] lx.t = "null" -> Nil

\* Mutant of tokenKeyAllowed: any scalar is taken in key position.
tokenKeyAllowed_AnyScalar(lx, d) ==
    /\ lx.t \in {"str", "num", "null"}
    /\ d.tokenState \in {"tokenObjectStart", "tokenObjectKey"}

\* json.Decoder.Token, case '"': a string at the start of an object or
\* after a "," of an object is a key, and a ":" has to follow
tokenKeyAllowed(lx, d) ==
    /\ lx.t = "str"
    /\ d.tokenState \in {"tokenObjectStart", "tokenObjectKey"}

\* json.Decoder.Token: the next token of the text; white space is skipped,
\* "," and ":" are skipped where the grammar has them, the end of the text
\* is the error io.EOF.  A token the grammar does not allow where it stands
\* (a value in key position, a value after a value, a closing delimiter
\* that closes nothing) is a syntax error.
RECURSIVE Token(_)
Token(d) ==
    IF d.pos > Len(d.data)
    THEN endOfText(d)
    ELSE LET lx == d.data[d.pos]
         IN CASE lx.t = "nl" -> Token([d EXCEPT !.pos = d.pos + 1])
              [] lx.t = ":" ->
                    IF d.tokenState = "tokenObjectColon"
                    THEN Token([d EXCEPT !.pos = d.pos + 1,
                                         !.tokenState = "tokenObjectValue"])
                    ELSE tokenError(d)
              [] lx.t = "," ->
                    IF d.tokenState = "tokenArrayComma"
                    THEN Token([d EXCEPT !.pos = d.pos + 1,
                                         !.tokenState = "tokenArrayValue"])
                    ELSE IF d.tokenState = "tokenObjectComma"
                    THEN Token([d EXCEPT !.pos = d.pos + 1,
                                         !.tokenState = "tokenObjectKey"])
                    ELSE tokenError(d)
              [] lx.t = "[" ->
                    IF tokenValueAllowed(d)
                    THEN [token |-> Delim("["), err |-> "nil",
                          d |-> tokenPush(d, "tokenArrayStart")]
                    ELSE tokenError(d)
              [] lx.t = "{" ->
                    IF tokenValueAllowed(d)
                    THEN [token |-> Delim("{"), err |-> "nil",
                          d |-> tokenPush(d, "tokenObjectStart")]
                    ELSE tokenError(d)
              [] lx.t = "]" ->
                    IF d.tokenState \in {"tokenArrayStart", "tokenArrayComma"}
                    THEN [token |-> Delim("]"), err |-> "nil", d |-> tokenPop(d)]
                    ELSE tokenError(d)
              [] lx.t = "}" ->
                    IF d.tokenState \in {"tokenObjectStart", "tokenObjectComma"}
                    THEN [token |-> Delim("}"), err |-> "nil", d |-> tokenPop(d)]
                    ELSE tokenError(d)
              [] tokenKeyAllowed(lx, d) ->
                    [token |-> tokenScalar(lx, d), err |-> "nil",
                     d |-> [d EXCEPT !.pos = d.pos + 1,
                                     !.tokenState = "tokenObjectColon"]]
              [] OTHER ->
                    IF ~tokenValueAllowed(d) THEN tokenError(d)
                    ELSE [token |-> tokenScalar(lx, d), err |-> "nil", d |-> tokenValue(d)]

\* jsonObject: the *Map or *Pairs a JSON object is parsed into.
MapObject(mp) == [kind |-> "Map", map |-> mp]
PairsObject(ps) == [kind |-> "Pairs", pairs |-> ps]
ListValue(l) == [kind |-> "List", list |-> l]

\* Mutant of Object_Add: members are stored with Map.Set.
Object_Add_BySet(object, key, value) ==
    IF object.kind = "Map"
    THEN MapObject(Map_Set(object.map, key, value))
    ELSE PairsObject(Pairs_Add(object.pairs, key, value))

Object_Add(object, key, value) ==
    IF object.kind = "Map"
    THEN MapObject(Map_Add(object.map, key, value))
    ELSE PairsObject(Pairs_Add(object.pairs, key, value))

Object_Len(object) ==
    IF object.kind = "Map" THEN Map_Len(object.map) ELSE Pairs_Len(object.pairs)

Object_GetByIndex(object, i) ==
    IF object.kind = "Map"
    THEN Map_GetByIndex(object.map, i)
    ELSE Pairs_GetByIndex(object.pairs, i)

RECURSIVE next(_)
RECURSIVE nextAfterToken(_, _)
RECURSIVE parseIntoObject(_, _)
RECURSIVE parseIntoArray(_, _)
RECURSIVE appendElement(_, _)
RECURSIVE parseIntoTypedObject(_, _)
RECURSIVE addTypedMember(_, _, _)

next(d) ==
    LET t == Token(d)
    IN IF t.err # "nil" THEN [value |-> Nil, err |-> t.err, d |-> t.d]
       ELSE nextAfterToken(t.d, t.token)

\* the value of an object or array that has been parsed, nil with an error
objectValue(r) ==
    IF r.err # "nil" THEN [value |-> Nil, err |-> r.err, d |-> r.d]
    ELSE [value |-> r.object, err |-> "nil", d |-> r.d]

arrayValue(r) ==
    IF r.err # "nil" THEN [value |-> Nil, err |-> r.err, d |-> r.d]
    ELSE [value |-> ListValue(r.array), err |-> "nil", d |-> r.d]

\* Mutant of nextAfterToken: the map of an object keeps the strategy NewMap
\* gives it.
nextAfterToken_NewMapOnly(d, token) ==
    CASE IsDelim(token, "{") ->
            objectValue(parseIntoObject(d, IF d.opts.usePairs THEN PairsObject(NewPairs)
                                           ELSE MapObject(NewMap)))
      [] IsDelim(token, "[") -> arrayValue(parseIntoArray(d, NewList))
      [] token.kind = "Delim" /\ token.delim \notin {"{", "["} ->
            [value |-> Nil, err |-> "nil", d |-> d]
      [] OTHER -> [value |-> token, err |-> "nil", d |-> d]

nextAfterToken(d, token) ==
    CASE IsDelim(token, "{") ->
            objectValue(parseIntoObject(d,
                IF ObjectsArePairs(d.opts)
                THEN PairsObject(NewPairs)
                ELSE MapObject(Map_SetDuplicatedKeyStrategy(
                                  NewMap, d.opts.duplicatedKeyStrategy))))
      [] IsDelim(token, "[") -> arrayValue(parseIntoArray(d, NewList))
      [] token.kind = "Delim" /\ token.delim \notin {"{", "["} ->
            [value |-> Nil, err |-> "nil", d |-> d]
      [] OTHER ->
            \* bool, float64, json.Number, string, nil
            [value |-> token, err |-> "nil", d |-> d]

\* valueIsAny: V is any, every member value goes through next().
parseIntoObject(d, object) ==
    LET t == Token(d)
    IN IF t.err # "nil" THEN [object |-> object, err |-> t.err, d |-> t.d]
       ELSE IF IsDelim(t.token, "}") THEN [object |-> object, err |-> "nil", d |-> t.d]
       ELSE LET key == IF t.token.kind = "string" THEN t.token.s ELSE EmptyString
                v == next(t.d)
            IN IF v.err # "nil" THEN [object |-> object, err |-> v.err, d |-> v.d]
               ELSE parseIntoObject(v.d, Object_Add(object, key, v.value))

\* `value = v.(T)` with T = any: the assertion of a nil interface value
\* panics ("interface conversion: interface is nil, not interface {}").
appendElement(array, v) ==
    IF v.err # "nil" THEN [array |-> array, err |-> v.err, d |-> v.d]
    ELSE IF v.value.kind = "nil" THEN [array |-> array, err |-> "panic", d |-> v.d]
    ELSE parseIntoArray(v.d, [array EXCEPT !.List = Append(array.List, v.value)])

parseIntoArray(d, array) ==
    LET t == Token(d)
    IN IF t.err # "nil" THEN [array |-> array, err |-> t.err, d |-> t.d]
       ELSE IF IsDelim(t.token, "]") THEN [array |-> array, err |-> "nil", d |-> t.d]
       ELSE appendElement(array, nextAfterToken(t.d, t.token))

\* isAny[V](): V is the empty interface
isAny(V) == V = "any"

\* the zero value of float64
ZeroFloat == [kind |-> "float64", n |-> 0]

\* d.decoder.Decode(&value) for a float64 value, called after the key token:
\* the ":" is passed, a number is stored, null leaves the zero value, any
\* other value is an UnmarshalTypeError.
RECURSIVE decodeFloat(_)
decodeFloat(d) ==
    IF d.pos > Len(d.data) THEN [value |-> ZeroFloat, err |-> "EOF", d |-> d]
    ELSE LET lx == d.data[d.pos]
         IN CASE lx.t = "nl" -> decodeFloat([d EXCEPT !.pos = d.pos + 1])
              [] lx.t = ":" /\ d.tokenState = "tokenObjectColon" ->
                    decodeFloat([d EXCEPT !.pos = d.pos + 1,
                                          !.tokenState = "tokenObjectValue"])
              [] lx.t = "num" /\ tokenValueAllowed(d) ->
                    [value |-> [kind |-> "float64", n |-> ParseFloat(lx.v)],
                     err |-> "nil", d |-> tokenValue(d)]
              [] lx.t = "null" /\ tokenValueAllowed(d) ->
                    [value |-> ZeroFloat, err |-> "nil", d |-> tokenValue(d)]
              [] lx.t \in {"str", "{", "["} /\ tokenValueAllowed(d) ->
                    [value |-> ZeroFloat, err |-> "UnmarshalTypeError", d |-> d]
              [] OTHER -> [value |-> ZeroFloat, err |-> "SyntaxError", d |-> d]

\* parseIntoObject when V is float64: every member value is decoded by
\* d.decoder.Decode(&value).
addTypedMember(object, key, v) ==
    IF v.err # "nil" THEN [object |-> object, err |-> v.err, d |-> v.d]
    ELSE parseIntoTypedObject(v.d, Object_Add(object, key, v.value))

parseIntoTypedObject(d, object) ==
    LET t == Token(d)
    IN IF t.err # "nil" THEN [object |-> object, err |-> t.err, d |-> t.d]
       ELSE IF IsDelim(t.token, "}") THEN [object |-> object, err |-> "nil", d |-> t.d]
       ELSE addTypedMember(object,
                           IF t.token.kind = "string" THEN t.token.s ELSE EmptyString,
                           decodeFloat(t.d))

\* the top-level value as it was parsed
firstValue(item) ==
    IF item.err # "nil" THEN [value |-> Nil, err |-> item.err]
    ELSE [value |-> item.value, err |-> "nil"]

\* the top-level value, if the text is at its end after it
onlyValue(item) ==
    IF item.err # "nil" THEN [value |-> Nil, err |-> item.err]
    ELSE IF Token(item.d).err # "EOF"
         THEN [value |-> Nil, err |-> "SyntaxError"]
         ELSE [value |-> item.value, err |-> "nil"]

\* Mutant of decode: what follows the top-level value is not looked at.
decode_FirstValueOnly(d0) ==
    firstValue(next([d0 EXCEPT !.useNumber = d0.opts.useNumber]))

\* decoder.decode: the top-level value, then the text must be at its end.
decode(d0) ==
    onlyValue(next([d0 EXCEPT !.useNumber = d0.opts.useNumber]))

JSONUnmarshal(data, opts) == decode(newDecoder(data, opts))

\* The key types K a Map[K, V] or Pairs[K, V] is made with: string, int,
\* *string and `type myString string`.
KeyTypes == {"string", "int", "*string", "myString"}

\* underlyingIsString[K](): reflect.TypeOf(checker).Kind() == reflect.String
\* (the nil type of a nil pointer or interface has no Kind).
underlyingIsString(K) == K \in {"string", "myString"}

\* isString[K](): reflect.TypeOf(checker) == reflect.TypeOf("")
isString(K) == K = "string"

\* what unmarshalObject leaves: the object parseIntoObject filled and its
\* error
objectAndError(r) == [object |-> r.object, err |-> r.err]

\* unmarshalObject, called by Map.UnmarshalJSON on a *Map[K, any] with
\* the options UseObject(), ObjectOnDuplicatedKey(m.duplicatedKeyStrategy).
unmarshalObject(K, V, data, object, opts) ==
    LET d == newDecoder(data, opts)
        t == Token(d)
    IN IF ~isString(K) THEN [object |-> object, err |-> "UnmarshalTypeError"]
       ELSE IF t.err # "nil" THEN [object |-> object, err |-> t.err]
       ELSE IF ~IsDelim(t.token, "{")
            THEN [object |-> object, err |-> "UnmarshalTypeError"]
       ELSE IF isAny(V) THEN objectAndError(parseIntoObject(t.d, object))
       ELSE objectAndError(parseIntoTypedObject(t.d, object))

Pairs_UnmarshalJSON(K, V, pl, data) ==
    unmarshalObject(K, V, data, PairsObject(pl),
                    IF revision = "part_000" THEN UseObjectItem(DefaultDecodeOptions)
                    ELSE UsePairs(DefaultDecodeOptions, TRUE))

\* json.Unmarshal(data, array.innerSlice()) of encoding/json for a []float64:
\* null sets the slice to nil, an array is decoded element by element into a
\* new slice, any other value is an UnmarshalTypeError and leaves the slice.
\* the decoder after the rest of an array or object whose opening
\* delimiter has been read
RECURSIVE skipValue(_, _)
skipValue(d, depth) ==
    LET t == Token(d)
    IN IF t.err # "nil" THEN t.d
       ELSE IF t.token.kind # "Delim" THEN skipValue(t.d, depth)
       ELSE IF t.token.delim \in {"{", "["} THEN skipValue(t.d, depth + 1)
       ELSE IF depth = 1 THEN t.d
       ELSE skipValue(t.d, depth - 1)

\* the element json.Unmarshal decodes into: the slice keeps its elements
\* up to its length, and grows by zero values
slotOf(old, i) == IF i <= Len(old) THEN old[i] ELSE ZeroFloat

\* json.Unmarshal into a slice of float64 decodes element i into the slot
\* i of the slice.  A number is stored; null leaves the slot as it is; a
\* string, array or object leaves it as it is too, and the first such
\* UnmarshalTypeError is returned when the array has been read.
RECURSIVE stdSliceElements(_, _, _, _)
stdSliceElements(d, elems, saved, old) ==
    LET t == Token(d)
    IN IF t.err # "nil" THEN [array |-> [List |-> elems], err |-> t.err]
       ELSE IF IsDelim(t.token, "]") THEN [array |-> [List |-> elems], err |-> saved]
       ELSE IF t.token.kind = "float64"
            THEN stdSliceElements(t.d, Append(elems, t.token), saved, old)
       ELSE IF t.token.kind = "nil"
            THEN stdSliceElements(t.d, Append(elems, slotOf(old, Len(elems) + 1)),
                                  saved, old)
       ELSE stdSliceElements(IF t.token.kind = "Delim" THEN skipValue(t.d, 1) ELSE t.d,
                             Append(elems, slotOf(old, Len(elems) + 1)),
                             IF saved # "nil" THEN saved ELSE "UnmarshalTypeError",
                             old)

\* json.checkValid: the text is one JSON value and nothing else
RECURSIVE scanValid(_, _)
scanValid(d, values) ==
    LET t == Token(d)
    IN IF t.err = "EOF" THEN values = 1 /\ d.tokenStack = <<>>
       ELSE IF t.err # "nil" THEN FALSE
       ELSE IF d.tokenStack = <<>> /\ values = 1 THEN FALSE
       ELSE scanValid(t.d, 1)

checkValid(data) == scanValid(newDecoder(data, DefaultDecodeOptions), 0)

stdUnmarshalSlice(data, array) ==
    LET t == Token(newDecoder(data, DefaultDecodeOptions))
    IN IF ~checkValid(data) THEN [array |-> array, err |-> "SyntaxError"]
       ELSE IF t.err # "nil" THEN [array |-> array, err |-> t.err]
       ELSE IF t.token.kind = "nil" THEN [array |-> [array EXCEPT !.List = <<>>], err |-> "nil"]
       ELSE IF IsDelim(t.token, "[") THEN stdSliceElements(t.d, <<>>, "nil", array.List)
       ELSE [array |-> array, err |-> "UnmarshalTypeError"]

\* Mutant of unmarshalArray: the first token is not looked at.
unmarshalArray_AnyFirstToken(data, array, elemIsAny) ==
    IF ~elemIsAny THEN stdUnmarshalSlice(data, array)
    ELSE LET t == Token(newDecoder(data, DefaultDecodeOptions))
         IN IF t.err # "nil" THEN [array |-> array, err |-> t.err]
            ELSE [array |-> [array EXCEPT !.List = <<>>], err |-> "nil"]

\* what unmarshalArray leaves: the array parseIntoArray filled and its error
arrayAndError(r) == [array |-> r.array, err |-> r.err]

\* unmarshalArray, called by List.UnmarshalJSON; parseIntoArray starts with
\* `*array.innerSlice() = nil`.
unmarshalArray(data, array, elemIsAny) ==
    IF ~elemIsAny THEN stdUnmarshalSlice(data, array)
    ELSE LET t == Token(newDecoder(data, DefaultDecodeOptions))
         IN IF t.err # "nil" THEN [array |-> array, err |-> t.err]
            ELSE IF ~IsDelim(t.token, "[")
                 THEN [array |-> array, err |-> "UnmarshalTypeError"]
                 ELSE arrayAndError(parseIntoArray(t.d, [array EXCEPT !.List = <<>>]))

List_UnmarshalJSON(l, data, elemIsAny) == unmarshalArray(data, l, elemIsAny)

Map_UnmarshalJSON(K, V, mp, data) ==
    unmarshalObject(K, V, data, MapObject(mp),
                    IF revision = "part_000"
                    THEN ObjectOnDuplicatedKey(UseObject(DefaultDecodeOptions),
                                               mp.duplicatedKeyStrategy)
                    ELSE OnDuplicatedKey(UsePairs(DefaultDecodeOptions, FALSE),
                                         mp.duplicatedKeyStrategy))

(***************************************************************************)
(* Encoder (src/json.go).                                                  *)
(***************************************************************************)
\* encoding/json compacts what a MarshalJSON method returns: insignificant
\* whitespace goes.
Compact(bytes) ==
    LET significant(lx) == lx.t # "nl"
    IN SelectSeq(bytes, significant)

\* json.Number("invalid"): a Number whose text is no number literal
InvalidLiteral == 0
InvalidNumber == [kind |-> "Number", n |-> InvalidLiteral]

\* what a MarshalJSON method returned, compacted, and a newline
compactLine(r) ==
    IF r.err # "nil" THEN r
    ELSE [bytes |-> Compact(r.bytes) \o <<NL>>, err |-> "nil"]

\* the encoding without the newline
compacted(r) ==
    IF r.err # "nil" THEN r ELSE [bytes |-> Compact(r.bytes), err |-> "nil"]

\* no bytes come with an error
bytesOrError(r) ==
    IF r.err # "nil" THEN [bytes |-> <<>>, err |-> r.err]
    ELSE [bytes |-> Compact(r.bytes), err |-> "nil"]

RECURSIVE Encode(_)
RECURSIVE EncodeElems(_, _, _)
RECURSIVE marshalObject(_, _)
RECURSIVE marshalObjectFrom(_, _, _, _)
RECURSIVE marshalObjectFrom_SkipsFailed(_, _, _, _)
RECURSIVE marshalObjectDownFrom(_, _, _)
RECURSIVE marshalArray(_)

\* json.Encoder.Encode(v): the encoding of v and a newline.  A *Map, *Pairs
\* or *List is encoded by its MarshalJSON method.
Encode(v) ==
    CASE v.kind = "float64" ->
            [bytes |-> <<Lex("num", FormatFloat(v.n)), NL>>, err |-> "nil"]
      [] v.kind = "Number" ->
            IF v.n = InvalidLiteral
            THEN [bytes |-> <<>>, err |-> "invalid number literal"]
            ELSE [bytes |-> <<Lex("num", v.n), NL>>, err |-> "nil"]
      [] v.kind = "string" -> [bytes |-> <<Lex("str", v.s), NL>>, err |-> "nil"]
      [] v.kind = "nil" -> [bytes |-> <<Lex("null", 0), NL>>, err |-> "nil"]
      [] v.kind \in {"Map", "Pairs"} -> compactLine(marshalObject("string", v))
      [] v.kind = "List" -> compactLine(marshalArray(v.list))

\* the elements of a slice as encoding/json writes them
EncodeElems(slice, i, buf) ==
    IF i > Len(slice) THEN [bytes |-> buf, err |-> "nil"]
    ELSE LET r == Encode(slice[i])
         IN IF r.err # "nil" THEN [bytes |-> <<>>, err |-> r.err]
            ELSE EncodeElems(slice, i + 1,
                             buf \o (IF i > 1 THEN <<Lex(",", 0)>> ELSE <<>>)
                                 \o Compact(r.bytes))

\* parseIntoArray leaves a nil slice for an empty array.
marshalArray(array) ==
    IF array.List = <<>> THEN [bytes |-> <<Lex("[", 0), Lex("]", 0)>>, err |-> "nil"]
    ELSE LET r == EncodeElems(array.List, 1, <<Lex("[", 0)>>)
         IN IF r.err # "nil" THEN r
            ELSE [bytes |-> r.bytes \o <<Lex("]", 0), NL>>, err |-> "nil"]

\* Mutant of marshalObjectFrom: a member whose value does not encode is
\* left out.
marshalObjectFrom_SkipsFailed(object, i, length, buf) ==
    IF i >= length THEN [bytes |-> buf \o <<Lex("}", 0)>>, err |-> "nil"]
    ELSE LET pair == Object_GetByIndex(object, i)
             r == Encode(pair.Value)
         IN IF r.err # "nil"
            THEN marshalObjectFrom_SkipsFailed(object, i + 1, length, buf)
            ELSE marshalObjectFrom_SkipsFailed(object, i + 1, length,
                    buf \o (IF Len(buf) > 1 THEN <<Lex(",", 0)>> ELSE <<>>)
                        \o <<Lex("str", pair.Key), NL, Lex(":", 0)>>
                        \o r.bytes)

marshalObjectFrom(object, i, length, buf) ==
    IF i >= length THEN [bytes |-> buf \o <<Lex("}", 0)>>, err |-> "nil"]
    ELSE LET pair == Object_GetByIndex(object, i)
             r == Encode(pair.Value)
         IN IF r.err # "nil" THEN [bytes |-> <<>>, err |-> r.err]
            ELSE marshalObjectFrom(object, i + 1, length,
                    buf \o (IF i > 0 THEN <<Lex(",", 0)>> ELSE <<>>)
                        \o <<Lex("str", pair.Key), NL, Lex(":", 0)>>
                        \o r.bytes)

\* Mutant of marshalObject: the members are written from the last index down.
marshalObjectDownFrom(object, i, buf) ==
    IF i < 0 THEN [bytes |-> buf \o <<Lex("}", 0)>>, err |-> "nil"]
    ELSE LET pair == Object_GetByIndex(object, i)
             r == Encode(pair.Value)
         IN IF r.err # "nil" THEN [bytes |-> <<>>, err |-> r.err]
            ELSE marshalObjectDownFrom(object, i - 1,
                    buf \o (IF Len(buf) > 1 THEN <<Lex(",", 0)>> ELSE <<>>)
                        \o <<Lex("str", pair.Key), NL, Lex(":", 0)>>
                        \o r.bytes)

marshalObject_LastFirst(K, object) ==
    marshalObjectDownFrom(object, Object_Len(object) - 1, <<Lex("{", 0)>>)

\* Mutant of marshalObject: the key type is not looked at.
marshalObject_AnyKeyType(K, object) ==
    marshalObjectFrom(object, 0, Object_Len(object), <<Lex("{", 0)>>)

\* The decoder makes Map[string, any] and Pairs[string, any] only.
marshalObject(K, object) ==
    IF ~isString(K) THEN [bytes |-> <<>>, err |-> "UnsupportedTypeError"]
    ELSE marshalObjectFrom(object, 0, Object_Len(object), <<Lex("{", 0)>>)

\* enc.Encode(slice) of encoding/json: a nil slice is null.
EncodeSlice(slice, sliceIsNil) ==
    IF sliceIsNil THEN [bytes |-> <<Lex("null", 0), NL>>, err |-> "nil"]
    ELSE LET r == EncodeElems(slice, 1, <<Lex("[", 0)>>)
         IN IF r.err # "nil" THEN r
            ELSE [bytes |-> r.bytes \o <<Lex("]", 0), NL>>, err |-> "nil"]

\* Mutant of marshalSlice: a nil slice is handed to the encoder as it is.
marshalSlice_NoNilCheck(array, sliceIsNil) == EncodeSlice(array.List, sliceIsNil)

\* marshalArray of a List whose slice is nil (NewList) or is not
\* (NewListFrom, NewListWithCapacity)
marshalSlice(array, sliceIsNil) ==
    IF sliceIsNil THEN [bytes |-> <<Lex("[", 0), Lex("]", 0)>>, err |-> "nil"]
    ELSE EncodeSlice(array.List, FALSE)

Map_MarshalJSON(K, mp) == marshalObject(K, MapObject(mp))
Pairs_MarshalJSON(K, ps) == marshalObject(K, PairsObject(ps))
List_MarshalJSON(l, sliceIsNil) == marshalSlice(l, sliceIsNil)

\* json.Marshal(c) of a *Map, *Pairs or *List c: null for a nil pointer,
\* else the compacted result of MarshalJSON, and no bytes with its error.
MarshalContainer(c) ==
    IF c.isNil THEN [bytes |-> <<Lex("null", 0)>>, err |-> "nil"]
    ELSE bytesOrError(
            CASE c.kind = "Map" -> Map_MarshalJSON(c.keyType, c.value.map)
              [] c.kind = "Pairs" -> Pairs_MarshalJSON(c.keyType, c.value.pairs)
              [] c.kind = "List" -> List_MarshalJSON(c.value.list, c.sliceIsNil))

\* json.Marshal(v): the compact encoding, without the newline.
JSONMarshal(v) == compacted(Encode(v))

(***************************************************************************)
(* Two goroutines that call Set or Add on one Map without a lock.  `race`  *)
(* holds the Map and, for each goroutine, the statement it stands at and   *)
(* its local variables.  The statements of Map.Set, Map.Add and Map.set    *)
(* are the steps; a step of one goroutine while the other is inside its    *)
(* call is an interleaving.                                                *)
(***************************************************************************)
Goroutines == {1, 2}
RaceKeys == {1, 2}

NoGoroutine ==
    [pc |-> "idle", op |-> "none", key |-> 0, value |-> ZeroValue,
     alreadyExist |-> FALSE, sawNil |-> FALSE, local |-> <<>>]

NoRace ==
    [m |-> NewMap, procs |-> [p \in Goroutines |-> NoGoroutine],
     crashed |-> FALSE, interleaved |-> FALSE]

\* the goroutine is inside its call
MidCall(proc) == proc.pc \notin {"idle", "done"}

Other(p) == CHOOSE q \in Goroutines : q # p

\* the race after a step of p that leaves the Map as mp and p as proc
RaceAfter(p, mp, proc) ==
    [race EXCEPT !.m = mp, !.procs[p] = proc,
                 !.interleaved = race.interleaved \/ MidCall(race.procs[Other(p)])]

\* Mutant of alreadyExistOf: the key is taken as new.
alreadyExistOf_Never(mp, key) == FALSE

\* m.Has(key), the argument of m.set in Set and in Add under
\* UpdateValueKeepOrder
alreadyExistOf(mp, key) == Map_Has(mp, key)

\* m.Set(key, value) or m.Add(key, value) is called
RaceCall(p) ==
    /\ ~race.crashed
    /\ race.procs[p].pc = "idle"
    /\ \E op \in {"Set", "Add"}, key \in RaceKeys, value \in Vals :
          race' = RaceAfter(p, race.m,
                            [NoGoroutine EXCEPT !.pc = "check", !.op = op, !.key = key,
                                                !.value = value])
    /\ UNCHANGED <<m, last, revision, codec, pairList, plast, valueList, vlast, run>>

\* the first statement of the call: m.Has(key) in Set; the case of the
\* switch in Add
RaceCheck(p) ==
    LET proc == race.procs[p]
        mp == race.m
        strategy == IF proc.op = "Set" THEN UpdateValueKeepOrder
                    ELSE mp.duplicatedKeyStrategy
    IN /\ ~race.crashed
       /\ proc.pc = "check"
       /\ race' =
             CASE strategy = UpdateValueUpdateOrder ->
                     RaceAfter(p, mp, [proc EXCEPT !.pc = "delete"])
               [] strategy = KeepValueUpdateOrder ->
                     IF Map_Has(mp, proc.key)
                     THEN RaceAfter(p, mp, [proc EXCEPT !.pc = "delete",
                                                        !.value = mp.inner[proc.key]])
                     ELSE RaceAfter(p, mp, [proc EXCEPT !.pc = "nilCheck"])
               [] strategy = Ignore ->
                     IF Map_Has(mp, proc.key)
                     THEN RaceAfter(p, mp, [proc EXCEPT !.pc = "done"])
                     ELSE RaceAfter(p, mp, [proc EXCEPT !.pc = "nilCheck"])
               [] OTHER ->
                     RaceAfter(p, mp, [proc EXCEPT !.pc = "nilCheck",
                                                   !.alreadyExist =
                                                       alreadyExistOf(mp, proc.key)])
       /\ UNCHANGED <<m, last, revision, codec, pairList, plast, valueList, vlast, run>>

\* m.Delete(key) in Add
RaceDelete(p) ==
    /\ ~race.crashed
    /\ race.procs[p].pc = "delete"
    /\ race' = RaceAfter(p, Map_Delete(race.m, race.procs[p].key),
                         [race.procs[p] EXCEPT !.pc = "nilCheck"])
    /\ UNCHANGED <<m, last, revision, codec, pairList, plast, valueList, vlast, run>>

\* if m.inner == nil
RaceNilCheck(p) ==
    /\ ~race.crashed
    /\ race.procs[p].pc = "nilCheck"
    /\ race' = RaceAfter(p, race.m,
                         [race.procs[p] EXCEPT !.sawNil = race.m.innerIsNil,
                                               !.pc = IF race.m.innerIsNil THEN "make"
                                                      ELSE "readOrder"])
    /\ UNCHANGED <<m, last, revision, codec, pairList, plast, valueList, vlast, run>>

\* m.inner = make(map[K]V)
RaceMake(p) ==
    /\ ~race.crashed
    /\ race.procs[p].pc = "make"
    /\ race' = RaceAfter(p, [race.m EXCEPT !.inner = EmptyInner, !.innerIsNil = FALSE],
                         [race.procs[p] EXCEPT !.pc = "readOrder"])
    /\ UNCHANGED <<m, last, revision, codec, pairList, plast, valueList, vlast, run>>

\* if !alreadyExist: append reads the slice m.order
RaceReadOrder(p) ==
    /\ ~race.crashed
    /\ race.procs[p].pc = "readOrder"
    /\ race' = RaceAfter(p, race.m,
                         IF race.procs[p].alreadyExist
                         THEN [race.procs[p] EXCEPT !.pc = "store"]
                         ELSE [race.procs[p] EXCEPT !.pc = "writeOrder",
                                                    !.local = race.m.order])
    /\ UNCHANGED <<m, last, revision, codec, pairList, plast, valueList, vlast, run>>

\* m.order = append(m.order, key): the slice that was read, with the key
RaceWriteOrder(p) ==
    /\ ~race.crashed
    /\ race.procs[p].pc = "writeOrder"
    /\ race' = RaceAfter(p, [race.m EXCEPT !.order = Append(race.procs[p].local,
                                                            race.procs[p].key)],
                         [race.procs[p] EXCEPT !.pc = "store"])
    /\ UNCHANGED <<m, last, revision, codec, pairList, plast, valueList, vlast, run>>

\* m.inner[key] = value
RaceStore(p) ==
    /\ ~race.crashed
    /\ race.procs[p].pc = "store"
    /\ race' = RaceAfter(p, [race.m EXCEPT !.inner = MapStore(race.m.inner,
                                                              race.procs[p].key,
                                                              race.procs[p].value)],
                         [race.procs[p] EXCEPT !.pc = "done"])
    /\ UNCHANGED <<m, last, revision, codec, pairList, plast, valueList, vlast, run>>

\* The runtime may find two goroutines in the hash table at once, one of
\* them writing, and end the program: "fatal error: concurrent map writes"
\* or "concurrent map read and map write".
RaceFatal ==
    /\ ~race.crashed
    /\ \E p \in Goroutines :
          /\ race.procs[p].pc \in {"store", "delete"}
          /\ race.procs[Other(p)].pc \in {"store", "delete", "check"}
    /\ race' = [race EXCEPT !.crashed = TRUE, !.interleaved = TRUE]
    /\ UNCHANGED <<m, last, revision, codec, pairList, plast, valueList, vlast, run>>

\* the Maps the goroutines share: new or holding the key 1, with each
\* strategy
RaceMaps ==
    {Map_SetDuplicatedKeyStrategy(mp, s) :
        mp \in {NewMap, Map_Set(NewMap, 1, ZeroValue)}, s \in NamedStrategies}

\* Texts with null members and elements, and texts that are no JSON or do
\* not match the target: {1:1}  {"1":1,2:1}  {null:1}  {"1":1,"2":"x"}
\* {"1":1,  [1,  [1,"x"]  [1,"x",2]
One == JNum(Shortest(1))
Two == JNum(Shortest(2))
NullDocuments ==
    {JArr(<<>>), JArr(<<One>>), JArr(<<One, Two>>), JArr(<<JNull>>),
     JArr(<<One, JNull>>), JArr(<<JNull, One>>), JArr(<<JArr(<<JNull>>)>>),
     JArr(<<JObj(<<Member(1, JNull)>>)>>),
     JObj(<<>>), JObj(<<Member(1, One)>>), JObj(<<Member(2, One)>>),
     JObj(<<Member(1, One), Member(2, Two)>>), JObj(<<Member(2, One), Member(1, Two)>>),
     JObj(<<Member(1, One), Member(1, Two)>>),
     JObj(<<Member(1, JNull)>>), JObj(<<Member(1, JArr(<<JNull>>))>>),
     JObj(<<Member(1, JArr(<<One, JNull>>))>>)}

Raw == [j |-> "raw"]
RawTexts ==
    LET num == Lex("num", Shortest(1))
        two == Lex("num", Shortest(2))
        a == Lex("str", 1)
        b == Lex("str", 2)
        nul == Lex("null", 0)
        ob == Lex("{", 0)
        cb == Lex("}", 0)
        oa == Lex("[", 0)
        ca == Lex("]", 0)
        col == Lex(":", 0)
        com == Lex(",", 0)
    IN {<<ob, num, col, num, cb>>,
        <<ob, a, col, num, com, two, col, num, cb>>,
        <<ob, nul, col, num, cb>>,
        <<ob, a, col, num, com, b, col, b, cb>>,
        <<ob, a, col, num, com>>,
        <<oa, num, com>>,
        <<oa, num, com, b, ca>>,
        <<oa, num, com, b, com, two, ca>>}

DecodeTexts ==
    {[doc |-> doc, data |-> Text(doc)] : doc \in NullDocuments}
        \cup {[doc |-> Raw, data |-> data] : data \in RawTexts}

(***************************************************************************)
(* A decode call, statement by statement.  `run` holds the decoder, the    *)
(* loops of parseIntoObject and parseIntoArray that have been entered and  *)
(* not left (`frames`, the innermost last), and the statement the call     *)
(* stands at: "first" (the first token of unmarshalObject and              *)
(* unmarshalArray), "next" (d.next()), "objectLoop" and "arrayLoop" (the   *)
(* top of the for loops), "value" (a value is handed to the caller), "eof" *)
(* (the check after the top-level value), "done" and "failed".             *)
(***************************************************************************)
NoRun ==
    [pc |-> "idle", entry |-> "none", d |-> newDecoder(<<>>, DefaultDecodeOptions),
     frames |-> <<>>, isNil |-> FALSE, err |-> "nil", closed |-> 0]

RunFailed(d, err) == [run EXCEPT !.pc = "failed", !.d = d, !.err = err]

\* nextAfterToken: an opening delimiter enters the loop of its kind, any
\* other token is the value
RunAfterToken(d, token) ==
    CASE IsDelim(token, "{") ->
            [run EXCEPT !.pc = "objectLoop", !.d = d, !.frames = Append(run.frames, "object")]
      [] IsDelim(token, "[") ->
            [run EXCEPT !.pc = "arrayLoop", !.d = d, !.frames = Append(run.frames, "array")]
      [] OTHER ->
            [run EXCEPT !.pc = "value", !.d = d, !.isNil = token.kind \in {"nil", "Delim"}]

\* the loop has met its closing token: parseIntoObject or parseIntoArray
\* returns nil; the call of unmarshalObject or unmarshalArray returns with
\* it when it was the loop they started
RunLoopClosed(d) ==
    LET frames == SubSeq(run.frames, 1, Len(run.frames) - 1)
    IN [run EXCEPT !.pc = IF frames = <<>> /\ run.entry # "JSONUnmarshal" THEN "done"
                          ELSE "value",
                   !.d = d, !.frames = frames, !.isNil = FALSE,
                   !.closed = run.closed + 1]

DecodeCalls == {"JSONUnmarshal", "Map", "List"}

\* JSONUnmarshal(data), m.UnmarshalJSON(data) or l.UnmarshalJSON(data) is
\* called
DecodeCall ==
    /\ run.pc = "idle"
    /\ \E entry \in DecodeCalls, text \in DecodeTexts, layout \in Layouts :
          run' = [NoRun EXCEPT !.pc = IF entry = "JSONUnmarshal" THEN "next" ELSE "first",
                               !.entry = entry,
                               !.d = newDecoder(Layout(layout, text.data),
                                                DefaultDecodeOptions)]
    /\ UNCHANGED <<m, last, revision, codec, pairList, plast, valueList, vlast, race>>

\* unmarshalObject, unmarshalArray: the first token has to open the object
\* or the array
StepFirst ==
    /\ run.pc = "first"
    /\ LET t == Token(run.d)
           open == IF run.entry = "Map" THEN "{" ELSE "["
       IN run' = IF t.err # "nil" THEN RunFailed(t.d, t.err)
                 ELSE IF ~IsDelim(t.token, open) THEN RunFailed(t.d, "UnmarshalTypeError")
                 ELSE RunAfterToken(t.d, t.token)
    /\ UNCHANGED <<m, last, revision, codec, pairList, plast, valueList, vlast, race>>

\* decoder.next: a token, then nextAfterToken
StepNext ==
    /\ run.pc = "next"
    /\ LET t == Token(run.d)
       IN run' = IF t.err # "nil" THEN RunFailed(t.d, t.err)
                 ELSE RunAfterToken(t.d, t.token)
    /\ UNCHANGED <<m, last, revision, codec, pairList, plast, valueList, vlast, race>>

\* the top of the loop of parseIntoObject: a token; an error returns it, a
\* "}" ends the loop, anything else is the key and d.next() follows
StepObjectLoop ==
    /\ run.pc = "objectLoop"
    /\ LET t == Token(run.d)
       IN run' = IF t.err # "nil" THEN RunFailed(t.d, t.err)
                 ELSE IF IsDelim(t.token, "}") THEN RunLoopClosed(t.d)
                 ELSE [run EXCEPT !.pc = "next", !.d = t.d]
    /\ UNCHANGED <<m, last, revision, codec, pairList, plast, valueList, vlast, race>>

\* the top of the loop of parseIntoArray: a token; an error returns it, a
\* "]" ends the loop, anything else goes to d.nextAfterToken(token)
StepArrayLoop ==
    /\ run.pc = "arrayLoop"
    /\ LET t == Token(run.d)
       IN run' = IF t.err # "nil" THEN RunFailed(t.d, t.err)
                 ELSE IF IsDelim(t.token, "]") THEN RunLoopClosed(t.d)
                 ELSE RunAfterToken(t.d, t.token)
    /\ UNCHANGED <<m, last, revision, codec, pairList, plast, valueList, vlast, race>>

\* a value is handed to its caller: decode checks the rest of the text,
\* parseIntoObject adds the member and loops, parseIntoArray asserts the
\* type (a nil value panics), appends and loops
StepValue ==
    /\ run.pc = "value"
    /\ run' = IF run.frames = <<>> THEN [run EXCEPT !.pc = "eof"]
              ELSE IF run.frames[Len(run.frames)] = "object"
                   THEN [run EXCEPT !.pc = "objectLoop"]
              ELSE IF run.isNil THEN RunFailed(run.d, "panic")
              ELSE [run EXCEPT !.pc = "arrayLoop"]
    /\ UNCHANGED <<m, last, revision, codec, pairList, plast, valueList, vlast, race>>

\* decode: after the top-level value the next token has to be io.EOF
StepEOF ==
    /\ run.pc = "eof"
    /\ LET t == Token(run.d)
       IN run' = IF t.err = "EOF" THEN [run EXCEPT !.pc = "done", !.d = t.d]
                 ELSE RunFailed(t.d, "SyntaxError")
    /\ UNCHANGED <<m, last, revision, codec, pairList, plast, valueList, vlast, race>>

\* the call has returned to its caller
DecodeReturn ==
    /\ run.pc \in {"done", "failed"}
    /\ run' = NoRun
    /\ UNCHANGED <<m, last, revision, codec, pairList, plast, valueList, vlast, race>>

\* the statements of a call that has begun
DecodeStep ==
    StepFirst \/ StepNext \/ StepObjectLoop \/ StepArrayLoop \/ StepValue \/ StepEOF

\* the codec record when no decode has been made
NoCodec ==
    [op |-> "none", doc |-> JNum(Shortest(1)), data |-> <<>>, opts |-> DefaultDecodeOptions,
     value |-> Nil, err |-> "nil", encoded |-> FALSE, out |-> <<>>, outErr |-> "nil",
     trailer |-> <<>>, target |-> Nil, elemIsAny |-> TRUE, keyType |-> "string",
     entry |-> "none", direct |-> FALSE]

(***************************************************************************)
(* Calls.  `last` is the record of the call that has just returned.        *)
(***************************************************************************)
NoCall ==
    [op |-> "none", pre |-> NewMap, key |-> 0, value |-> ZeroValue, index |-> 0,
     pairs |-> <<>>, pred |-> [by |-> "key", keep |-> {}], less |-> "none",
     strategy |-> UpdateValueKeepOrder, panic |-> FALSE,
     ret |-> Slice(<<>>, FALSE), made |-> <<>>, got |-> <<>>]

Idle == last.op = "none"

NoPairsCall ==
    [op |-> "none", pre |-> NewPairs, key |-> 0, value |-> ZeroValue, index |-> 0,
     pairs |-> <<>>, pred |-> [by |-> "key", keep |-> {}], less |-> "none",
     strategy |-> UpdateValueKeepOrder, panic |-> FALSE, result |-> NewMap,
     cap |-> 0, got |-> <<>>]

Indexes == (-1)..NumKeys

\* the Set calls of TestMap_Clear after the Clear
SetsAfterClear == 2

NoListCall ==
    [op |-> "none", pre |-> NewList, index |-> 0, value |-> ZeroValue, values |-> <<>>,
     cap |-> 0, panic |-> FALSE]

\* The revision of Map.Add / Map.Delete / Map.Append the program is built from.
AddOf(mp, k, v) ==
    IF revision = "map.go" THEN MapGo_Add(mp, k, v) ELSE Map_Add(mp, k, v)

DeleteOf(mp, k) ==
    IF revision = "map.go" THEN MapGo_Delete(mp, k) ELSE Map_Delete(mp, k)

AppendOf(mp, ps) ==
    IF revision = "map.go" THEN MapGo_Append(mp, ps) ELSE Map_Append(mp, ps)

Init ==
    /\ m \in {NewMap, NewMapWithCapacity}
    /\ last = NoCall
    /\ revision = "part_014"
    /\ codec = NoCodec
    /\ pairList = NewPairs
    /\ plast = NoPairsCall
    /\ valueList = NewList
    /\ vlast = NoListCall
    /\ race = NoRace
    /\ run = NoRun

InitMapGo ==
    /\ m \in {NewMap, NewMapWithCapacity}
    /\ last = NoCall
    /\ revision = "map.go"
    /\ codec = NoCodec
    /\ pairList = NewPairs
    /\ plast = NoPairsCall
    /\ valueList = NewList
    /\ vlast = NoListCall
    /\ race = NoRace
    /\ run = NoRun

SetDuplicatedKeyStrategy ==
    /\ Idle
    /\ UNCHANGED <<revision, codec, pairList, plast, valueList, vlast, race, run>>
    /\ \E s \in Strategies :
          /\ m' = Map_SetDuplicatedKeyStrategy(m, s)
          /\ last' = [NoCall EXCEPT !.op = "SetDuplicatedKeyStrategy", !.pre = m,
                                    !.strategy = s]

Set ==
    /\ Idle
    /\ UNCHANGED <<revision, codec, pairList, plast, valueList, vlast, race, run>>
    /\ \E k \in Keys, v \in Vals :
          /\ Len(Map_Set(m, k, v).order) <= MaxOrder
          /\ m' = Map_Set(m, k, v)
          /\ last' = [NoCall EXCEPT !.op = "Set", !.pre = m, !.key = k, !.value = v,
                                    !.panic = StoredIntoNil(Map_Set(m, k, v))]

Add ==
    /\ Idle
    /\ UNCHANGED <<revision, codec, pairList, plast, valueList, vlast, race, run>>
    /\ \E k \in Keys, v \in Vals :
          /\ Len(AddOf(m, k, v).order) <= MaxOrder
          /\ m' = AddOf(m, k, v)
          /\ last' = [NoCall EXCEPT !.op = "Add", !.pre = m, !.key = k, !.value = v,
                                    !.panic = StoredIntoNil(AddOf(m, k, v))]

AppendPairs ==
    /\ Idle
    /\ UNCHANGED <<revision, codec, pairList, plast, valueList, vlast, race, run>>
    /\ \E ps \in PairSeqs :
          /\ Len(AppendOf(m, ps).order) <= MaxOrder
          /\ m' = AppendOf(m, ps)
          /\ last' = [NoCall EXCEPT !.op = "Append", !.pre = m, !.pairs = ps,
                                    !.panic = StoredIntoNil(AppendOf(m, ps))]

Delete ==
    /\ Idle
    /\ UNCHANGED <<revision, codec, pairList, plast, valueList, vlast, race, run>>
    /\ \E k \in Keys :
          /\ m' = DeleteOf(m, k)
          /\ last' = [NoCall EXCEPT !.op = "Delete", !.pre = m, !.key = k]

\* the caller goes on after Delete(k) with Set(k, v)
SetAfterDelete ==
    /\ last.op = "Delete"
    /\ UNCHANGED <<revision, codec, pairList, plast, valueList, vlast, race, run>>
    /\ \E v \in Vals :
          /\ Len(Map_Set(m, last.key, v).order) <= MaxOrder
          /\ m' = Map_Set(m, last.key, v)
          /\ last' = [last EXCEPT !.op = "Delete; Set", !.value = v,
                                  !.panic = StoredIntoNil(Map_Set(m, last.key, v))]

\* GetKeyByIndex, GetByIndex and GetValueByIndex
GetAtIndex ==
    /\ Idle
    /\ UNCHANGED <<m, revision, codec, pairList, plast, valueList, vlast, race, run>>
    /\ \E i \in Indexes, op \in {"GetKeyByIndex", "GetByIndex", "GetValueByIndex"} :
          LET inRange == IndexInRange(m.order, i)
              got == CASE op = "GetKeyByIndex" -> Map_GetKeyByIndex(m, i)
                       [] op = "GetByIndex" -> Map_GetByIndex(m, i)
                       [] op = "GetValueByIndex" -> Map_GetValueByIndex(m, i)
          IN last' = [NoCall EXCEPT !.op = op, !.pre = m, !.index = i,
                                    !.panic = ~inRange,
                                    !.got = IF inRange THEN <<got>> ELSE <<>>]

DeleteByIndex ==
    /\ Idle
    /\ UNCHANGED <<revision, codec, pairList, plast, valueList, vlast, race, run>>
    /\ \E i \in Indexes :
          LET out == Map_DeleteByIndex(m, i)
          IN /\ m' = out.m
             /\ last' = [NoCall EXCEPT !.op = "DeleteByIndex", !.pre = m, !.index = i,
                                       !.panic = out.panic]

Clear ==
    /\ Idle
    /\ UNCHANGED <<revision, codec, pairList, plast, valueList, vlast, race, run>>
    /\ m' = Map_Clear(m)
    /\ last' = [NoCall EXCEPT !.op = "Clear", !.pre = m]

\* the caller goes on after Clear() with Set(k, v), as often as SetsAfterClear
SetAfterClear ==
    /\ last.op \in {"Clear", "Clear; Set"}
    /\ Len(last.made) < SetsAfterClear
    /\ UNCHANGED <<revision, codec, pairList, plast, valueList, vlast, race, run>>
    /\ \E k \in Keys, v \in Vals :
          /\ m' = Map_Set(m, k, v)
          /\ last' = [last EXCEPT !.op = "Clear; Set", !.key = k, !.value = v,
                                  !.made = Append(last.made, k),
                                  !.panic = StoredIntoNil(Map_Set(m, k, v))]

Sort ==
    /\ Idle
    /\ UNCHANGED <<revision, codec, pairList, plast, valueList, vlast, race, run>>
    /\ \E less \in LessFuncs :
          LET out == Map_Sort(m, less)
          IN /\ m' = out.m
             /\ last' = [NoCall EXCEPT !.op = "Sort", !.pre = m, !.less = less,
                                       !.panic = out.panic]

Filter ==
    /\ Idle
    /\ UNCHANGED <<revision, codec, pairList, plast, valueList, vlast, race, run>>
    /\ \E pred \in FilterFuncs :
          LET out == Map_Filter(m, pred)
          IN /\ m' = out.m
             /\ last' = [NoCall EXCEPT !.op = "Filter", !.pre = m, !.pred = pred,
                                       !.panic = out.panic]

CallKeys ==
    /\ Idle
    /\ UNCHANGED <<m, revision, codec, pairList, plast, valueList, vlast, race, run>>
    /\ last' = [NoCall EXCEPT !.op = "Keys", !.pre = m, !.ret = Map_KeysSlice(m),
                              !.made = Map_KeysSlice(m).elems]

CallValues ==
    /\ Idle
    /\ ~Map_Values(m).panic
    /\ UNCHANGED <<m, revision, codec, pairList, plast, valueList, vlast, race, run>>
    /\ last' = [NoCall EXCEPT !.op = "Values", !.pre = m, !.ret = Map_ValuesSlice(m),
                              !.made = Map_ValuesSlice(m).elems]

CallPairs ==
    /\ Idle
    /\ ~Map_Pairs(m).panic
    /\ UNCHANGED <<m, revision, codec, pairList, plast, valueList, vlast, race, run>>
    /\ last' = [NoCall EXCEPT !.op = "Pairs", !.pre = m, !.ret = Map_PairsSlice(m),
                              !.made = Map_PairsSlice(m).elems]

\* the elements a caller can put into the slice it was handed
ElementsFor(op) ==
    CASE op = "Keys" -> Keys
      [] op = "Values" -> Vals
      [] op = "Pairs" -> PairSet

SliceChanges(op, elems) ==
    {[kind |-> "overwrite", index |-> i, elem |-> x] :
        i \in 0..(Len(elems) - 1), x \in ElementsFor(op)}
      \cup {[kind |-> "append", index |-> Len(elems), elem |-> x] : x \in ElementsFor(op)}
      \cup {[kind |-> "delete", index |-> i, elem |-> elems[i + 1]] :
                i \in 0..(Len(elems) - 1)}

\* the caller overwrites an element of, appends to or deletes from the
\* slice Keys(), Values() or Pairs() returned
ChangeReturned ==
    /\ last.op \in {"Keys", "Values", "Pairs"}
    /\ UNCHANGED <<revision, codec, pairList, plast, valueList, vlast, race, run>>
    /\ \E change \in SliceChanges(last.op, last.ret.elems) :
          /\ last' = [last EXCEPT !.op = last.op \o "; changed",
                                  !.ret.elems = ChangeSlice(last.ret.elems, change)]
          /\ m' = IF last.ret.shared
                  THEN [m EXCEPT !.order = SeenThrough(m.order, change)]
                  ELSE m

Return ==
    /\ ~Idle
    /\ last' = NoCall
    /\ UNCHANGED <<m, revision, codec, pairList, plast, valueList, vlast, race, run>>

Next ==
    \/ SetDuplicatedKeyStrategy
    \/ Set
    \/ Add
    \/ AppendPairs
    \/ Delete
    \/ SetAfterDelete
    \/ GetAtIndex
    \/ DeleteByIndex
    \/ Clear
    \/ SetAfterClear
    \/ Sort
    \/ Filter
    \/ CallKeys
    \/ CallValues
    \/ CallPairs
    \/ ChangeReturned
    \/ Return

Spec == Init /\ [][Next]_vars

SpecMapGo == InitMapGo /\ [][Next]_vars

(***************************************************************************)
(* Codec calls.  `codec` is the record of the decode that has returned and *)
(* of the encode of its result.                                            *)
(***************************************************************************)
InitJSON ==
    /\ m = NewMap
    /\ last = NoCall
    /\ revision = "part_014"
    /\ codec = NoCodec
    /\ pairList = NewPairs
    /\ plast = NoPairsCall
    /\ valueList = NewList
    /\ vlast = NoListCall
    /\ race = NoRace
    /\ run = NoRun

\* the codec of src/unnamed/part_000
InitJSON000 ==
    /\ m = NewMap
    /\ last = NoCall
    /\ revision = "part_000"
    /\ codec = NoCodec
    /\ pairList = NewPairs
    /\ plast = NoPairsCall
    /\ valueList = NewList
    /\ vlast = NoListCall
    /\ race = NoRace
    /\ run = NoRun

\* the record of JSONUnmarshal(data, opts...) that ended as r
Unmarshalled(doc, trailer, data, opts, r) ==
    [NoCodec EXCEPT !.op = "JSONUnmarshal", !.doc = doc, !.trailer = trailer,
                    !.data = data, !.opts = opts, !.value = r.value, !.err = r.err]

\* the record of json.Unmarshal(data, &m) that ended as r
MapDecoded(doc, data, K, target, r) ==
    [NoCodec EXCEPT !.op = "Map.UnmarshalJSON", !.doc = doc, !.keyType = K,
                    !.data = data, !.target = MapObject(target),
                    !.opts = OnDuplicatedKey(DefaultDecodeOptions,
                                             target.duplicatedKeyStrategy),
                    !.value = r.object, !.err = r.err]

\* the record of a json.Marshal that ended as r
Marshalled(record, r) ==
    [record EXCEPT !.encoded = TRUE, !.out = r.bytes, !.outErr = r.err]

CallJSONUnmarshal ==
    /\ codec.op = "none"
    /\ \E doc \in Documents, layout \in Layouts, opts \in DecodeOptionSetsOf :
       \E trailer \in TrailersOf(doc) :
          codec' = Unmarshalled(doc, trailer, Layout(layout, Text(doc) \o trailer), opts,
                                JSONUnmarshal(Layout(layout, Text(doc) \o trailer), opts))
    /\ UNCHANGED <<m, last, revision, pairList, plast, valueList, vlast, race, run>>

\* m := NewMap[string, any](); m.SetDuplicatedKeyStrategy(s); json.Unmarshal(data, &m)
CallMapUnmarshalJSON ==
    /\ codec.op = "none"
    /\ \E K \in KeyTypes, layout \in Layouts, s \in Strategies :
       \E doc \in IF K = "string" THEN Documents \cup {JNull} ELSE KeyTypeDocuments :
          codec' = MapDecoded(doc, Layout(layout, Text(doc)), K,
                              Map_SetDuplicatedKeyStrategy(NewMap, s),
                              Map_UnmarshalJSON(K, "any", Map_SetDuplicatedKeyStrategy(NewMap, s),
                                                Layout(layout, Text(doc))))
    /\ UNCHANGED <<m, last, revision, pairList, plast, valueList, vlast, race, run>>

\* the record of json.Unmarshal(data, ps) that ended as r
PairsDecoded(doc, data, K, r) ==
    [NoCodec EXCEPT !.op = "Pairs.UnmarshalJSON", !.doc = doc, !.keyType = K,
                    !.data = data, !.target = PairsObject(NewPairs),
                    !.opts = UsePairs(DefaultDecodeOptions, TRUE),
                    !.value = r.object, !.err = r.err]

\* the record of json.Unmarshal(data, l) that ended as r
ListDecoded(doc, data, target, elemIsAny, r) ==
    [NoCodec EXCEPT !.op = "List.UnmarshalJSON", !.doc = doc, !.data = data,
                    !.target = ListValue(target), !.elemIsAny = elemIsAny,
                    !.value = ListValue(r.array), !.err = r.err]

\* ps := NewPairs[string, any](); json.Unmarshal(data, ps)
CallPairsUnmarshalJSON ==
    /\ codec.op = "none"
    /\ \E K \in KeyTypes, layout \in Layouts :
       \E doc \in IF K = "string" THEN Documents \cup {JNull} ELSE KeyTypeDocuments :
          codec' = PairsDecoded(doc, Layout(layout, Text(doc)), K,
                                Pairs_UnmarshalJSON(K, "any", NewPairs, Layout(layout, Text(doc))))
    /\ UNCHANGED <<m, last, revision, pairList, plast, valueList, vlast, race, run>>

\* the Lists a text is decoded into: a new one and one that has an element
ListTargets ==
    {NewList, [List |-> <<[kind |-> "float64", n |-> 1]>>]}

\* l := NewList[any]() or NewListFrom([]float64{1}); json.Unmarshal(data, l)
CallListUnmarshalJSON ==
    /\ codec.op = "none"
    /\ \E elemIsAny \in BOOLEAN, layout \in Layouts :
       \E doc \in (IF elemIsAny THEN Documents ELSE NumberArrays \cup {JNum(Shortest(1)), JObj(<<>>)})
                        \cup {JNull},
          target \in ListTargets :
          codec' = ListDecoded(doc, Layout(layout, Text(doc)), target, elemIsAny,
                               List_UnmarshalJSON(target, Layout(layout, Text(doc)),
                                                  elemIsAny))
    /\ UNCHANGED <<m, last, revision, pairList, plast, valueList, vlast, race, run>>

\* the values the containers that are encoded hold
Held == {[kind |-> "float64", n |-> n] : n \in {1, 2}} \cup {InvalidNumber}

\* the *Map, *Pairs and *List handed to json.Marshal: a nil pointer, or a
\* container of some key type with no, one or two entries; a List on a nil
\* slice (NewList) or on an empty one (NewListWithCapacity)
Containers ==
    LET ref(kind, K, value, sliceIsNil, isNil) ==
            [kind |-> kind, keyType |-> K, value |-> value,
             sliceIsNil |-> sliceIsNil, isNil |-> isNil]
        maps == {NewMap} \cup {Map_Set(NewMap, k, v) : k \in Names, v \in Held}
                  \cup {Map_Set(Map_Set(NewMap, k, v), 3 - k, w) :
                            k \in Names, v \in Held, w \in Held}
        pairs == {NewPairs} \cup {Pairs_Add(NewPairs, k, v) : k \in Names, v \in Held}
                   \cup {Pairs_Add(Pairs_Add(NewPairs, k, v), k, w) :
                             k \in Names, v \in Held, w \in Held}
        lists == {<<>>} \cup {<<v>> : v \in Held}
    IN {ref("Map", K, MapObject(mp), FALSE, isNil) :
            K \in KeyTypes, mp \in maps, isNil \in {FALSE}}
       \cup {ref("Pairs", K, PairsObject(ps), FALSE, isNil) :
            K \in KeyTypes, ps \in pairs, isNil \in {FALSE}}
       \cup {ref("List", "string", ListValue([List |-> l]), FALSE, FALSE) : l \in lists}
       \cup {ref("List", "string", ListValue(NewList), TRUE, FALSE)}
       \cup {ref("Map", K, MapObject(NewMap), FALSE, TRUE) : K \in KeyTypes}
       \cup {ref("Pairs", K, PairsObject(NewPairs), FALSE, TRUE) : K \in KeyTypes}
       \cup {ref("List", "string", ListValue(NewList), TRUE, TRUE)}

\* json.Marshal(c) of a container
CallMarshalContainer ==
    /\ codec.op = "none"
    /\ \E c \in Containers :
          codec' = Marshalled([NoCodec EXCEPT !.op = "json.Marshal", !.target = c,
                                              !.keyType = c.keyType],
                              MarshalContainer(c))
    /\ UNCHANGED <<m, last, revision, pairList, plast, valueList, vlast, race, run>>

\* json.Marshal of the decoded value of a document
CallJSONMarshal ==
    /\ codec.op \notin {"none", "Decode"}
    /\ codec.err = "nil"
    /\ ~codec.encoded
    /\ codec' = Marshalled(codec, JSONMarshal(codec.value))
    /\ UNCHANGED <<m, last, revision, pairList, plast, valueList, vlast, race, run>>

\* what a target holds before the decode: nothing or one entry
Old == [kind |-> "float64", n |-> 3]
DecodeTargets(entry) ==
    CASE entry = "JSONUnmarshal" -> {Nil}
      [] entry = "Map" ->
            {MapObject(Map_SetDuplicatedKeyStrategy(mp, s)) :
                mp \in {NewMap, Map_Set(NewMap, 1, Old)}, s \in Strategies}
      [] entry = "Pairs" -> {PairsObject(NewPairs), PairsObject(Pairs_Add(NewPairs, 1, Old))}
      [] entry = "List" -> {ListValue(NewList), ListValue([List |-> <<Old>>])}

\* json.Unmarshal(data, v) checks the whole text before v.UnmarshalJSON is
\* called; v is untouched when the text is no JSON.
stdUnmarshal(data, target, r) ==
    IF checkValid(data) THEN r ELSE [value |-> target, err |-> "SyntaxError"]

objectAfter(r) == [value |-> r.object, err |-> r.err]
listAfter(r) == [value |-> ListValue(r.array), err |-> r.err]

\* the call of one of the four entries on a text
UnmarshalJSONOf(entry, valueIsAny, target, data) ==
    CASE entry = "JSONUnmarshal" -> JSONUnmarshal(data, DefaultDecodeOptions)
      [] entry = "Map" ->
            objectAfter(Map_UnmarshalJSON("string", IF valueIsAny THEN "any" ELSE "float64",
                                          target.map, data))
      [] entry = "Pairs" ->
            objectAfter(Pairs_UnmarshalJSON("string", IF valueIsAny THEN "any" ELSE "float64",
                                            target.pairs, data))
      [] entry = "List" -> listAfter(List_UnmarshalJSON(target.list, data, valueIsAny))

DecodeEntries == {"JSONUnmarshal", "Map", "Pairs", "List"}

\* the record of a decode of a text that ended as r
TextDecoded(entry, valueIsAny, direct, target, text, r) ==
    [NoCodec EXCEPT !.op = "Decode", !.entry = entry, !.elemIsAny = valueIsAny,
                    !.direct = direct, !.target = target, !.doc = text.doc,
                    !.data = text.data, !.value = r.value, !.err = r.err]

\* JSONUnmarshal(data); or, on a Map, Pairs or List of any or of float64
\* that is new or holds an entry, json.Unmarshal(data, v) or
\* v.UnmarshalJSON(data)
CallDecodeText ==
    /\ codec.op = "none"
    /\ \E entry \in DecodeEntries, valueIsAny \in BOOLEAN, direct \in BOOLEAN,
          text \in DecodeTexts :
       \E target \in DecodeTargets(entry) :
          /\ entry = "JSONUnmarshal" => valueIsAny /\ direct
          /\ codec' = TextDecoded(entry, valueIsAny, direct, target, text,
                                  IF direct
                                  THEN UnmarshalJSONOf(entry, valueIsAny, target, text.data)
                                  ELSE stdUnmarshal(text.data, target,
                                           UnmarshalJSONOf(entry, valueIsAny, target,
                                                           text.data)))
    /\ UNCHANGED <<m, last, revision, pairList, plast, valueList, vlast, race, run>>

CodecReturn ==
    /\ codec.op # "none"
    /\ codec' = NoCodec
    /\ UNCHANGED <<m, last, revision, pairList, plast, valueList, vlast, race, run>>

NextJSON ==
    \/ CallJSONUnmarshal
    \/ CallMapUnmarshalJSON
    \/ CallPairsUnmarshalJSON
    \/ CallListUnmarshalJSON
    \/ CallMarshalContainer
    \/ CallJSONMarshal
    \/ CallDecodeText
    \/ CodecReturn

SpecJSON == InitJSON /\ [][NextJSON]_vars

SpecJSON000 == InitJSON000 /\ [][NextJSON]_vars

\* a decode call, statement by statement
InitDecoder ==
    /\ m = NewMap
    /\ last = NoCall
    /\ revision = "part_014"
    /\ codec = NoCodec
    /\ pairList = NewPairs
    /\ plast = NoPairsCall
    /\ valueList = NewList
    /\ vlast = NoListCall
    /\ race = NoRace
    /\ run = NoRun

NextDecoder ==
    \/ DecodeCall
    \/ StepFirst
    \/ StepNext
    \/ StepObjectLoop
    \/ StepArrayLoop
    \/ StepValue
    \/ StepEOF
    \/ DecodeReturn

SpecDecoder == InitDecoder /\ [][NextDecoder]_vars

\* A call is one goroutine running its statements one after the other: a
\* statement that can run does run.
FairDecoder == SpecDecoder /\ WF_vars(DecodeStep)

\* two goroutines on one Map
InitRace ==
    /\ m = NewMap
    /\ last = NoCall
    /\ revision = "part_014"
    /\ codec = NoCodec
    /\ pairList = NewPairs
    /\ plast = NoPairsCall
    /\ valueList = NewList
    /\ vlast = NoListCall
    /\ \E mp \in RaceMaps : race = [NoRace EXCEPT !.m = mp]
    /\ run = NoRun

NextRace ==
    \/ \E p \in Goroutines : RaceCall(p)
    \/ \E p \in Goroutines : RaceCheck(p)
    \/ \E p \in Goroutines : RaceDelete(p)
    \/ \E p \in Goroutines : RaceNilCheck(p)
    \/ \E p \in Goroutines : RaceMake(p)
    \/ \E p \in Goroutines : RaceReadOrder(p)
    \/ \E p \in Goroutines : RaceWriteOrder(p)
    \/ \E p \in Goroutines : RaceStore(p)
    \/ RaceFatal

SpecRace == InitRace /\ [][NextRace]_vars

(***************************************************************************)
(* Calls on a Pairs.  `plast` is the record of the call that has returned. *)
(***************************************************************************)
PairsDeleteOf(pl, k) ==
    IF revision = "map.go" THEN PairList_Delete(pl, k) ELSE Pairs_Delete(pl, k)

PairsToMapOf(pl, s) ==
    IF revision = "map.go" THEN PairList_ToMap(pl, s) ELSE Pairs_ToMap(pl, s)

PairsDedupOf(pl, s) ==
    IF revision = "map.go" THEN PairList_Dedup(pl, s) ELSE Pairs_Dedup(pl, s)

PairsIdle == plast.op = "none"

KeyedQueries == {"Get", "Count", "Has", "GetFirstOrZeroValue", "GetLastOrZeroValue"}

InitPairs ==
    /\ m = NewMap
    /\ last = NoCall
    /\ revision = "part_014"
    /\ codec = NoCodec
    /\ pairList = NewPairs
    /\ plast = NoPairsCall
    /\ valueList = NewList
    /\ vlast = NoListCall
    /\ race = NoRace
    /\ run = NoRun

InitPairList ==
    /\ m = NewMap
    /\ last = NoCall
    /\ revision = "map.go"
    /\ codec = NoCodec
    /\ pairList = NewPairs
    /\ plast = NoPairsCall
    /\ valueList = NewList
    /\ vlast = NoListCall
    /\ race = NoRace
    /\ run = NoRun

PairsAdd ==
    /\ PairsIdle
    /\ Pairs_Len(pairList) < MaxList
    /\ \E k \in Keys, v \in Vals :
          /\ pairList' = Pairs_Add(pairList, k, v)
          /\ plast' = [NoPairsCall EXCEPT !.op = "Add", !.pre = pairList, !.key = k, !.value = v]
    /\ UNCHANGED <<m, last, revision, codec, valueList, vlast, race, run>>

PairsAppend ==
    /\ PairsIdle
    /\ \E pairs \in PairSeqs :
          /\ Pairs_Len(pairList) + Len(pairs) <= MaxList
          /\ pairList' = Pairs_Append(pairList, pairs)
          /\ plast' = [NoPairsCall EXCEPT !.op = "Append", !.pre = pairList, !.pairs = pairs]
    /\ UNCHANGED <<m, last, revision, codec, valueList, vlast, race, run>>

PairsSetByIndex ==
    /\ PairsIdle
    /\ \E i \in (-1)..MaxList, k \in Keys, v \in Vals :
          LET out == Pairs_SetByIndex(pairList, i, k, v)
          IN /\ pairList' = out.ps
             /\ plast' = [NoPairsCall EXCEPT !.op = "SetByIndex", !.pre = pairList, !.index = i,
                                             !.key = k, !.value = v, !.panic = out.panic]
    /\ UNCHANGED <<m, last, revision, codec, valueList, vlast, race, run>>

\* GetKeyByIndex, GetByIndex and GetValueByIndex
PairsGetAtIndex ==
    /\ PairsIdle
    /\ \E i \in (-1)..MaxList, op \in {"GetKeyByIndex", "GetByIndex", "GetValueByIndex"} :
          LET inRange == IndexInRange(pairList.List, i)
              got == CASE op = "GetKeyByIndex" -> Pairs_GetKeyByIndex(pairList, i)
                       [] op = "GetByIndex" -> Pairs_GetByIndex(pairList, i)
                       [] op = "GetValueByIndex" -> Pairs_GetValueByIndex(pairList, i)
          IN plast' = [NoPairsCall EXCEPT !.op = op, !.pre = pairList, !.index = i,
                                          !.panic = ~inRange,
                                          !.got = IF inRange THEN <<got>> ELSE <<>>]
    /\ UNCHANGED <<m, last, revision, codec, pairList, valueList, vlast, race, run>>

PairsSetKeyByIndex ==
    /\ PairsIdle
    /\ \E i \in (-1)..MaxList, k \in Keys :
          LET out == Pairs_SetKeyByIndex(pairList, i, k)
          IN /\ pairList' = out.ps
             /\ plast' = [NoPairsCall EXCEPT !.op = "SetKeyByIndex", !.pre = pairList,
                                             !.index = i, !.key = k, !.panic = out.panic]
    /\ UNCHANGED <<m, last, revision, codec, valueList, vlast, race, run>>

PairsSetValueByIndex ==
    /\ PairsIdle
    /\ \E i \in (-1)..MaxList, v \in Vals :
          LET out == Pairs_SetValueByIndex(pairList, i, v)
          IN /\ pairList' = out.ps
             /\ plast' = [NoPairsCall EXCEPT !.op = "SetValueByIndex", !.pre = pairList,
                                             !.index = i, !.value = v, !.panic = out.panic]
    /\ UNCHANGED <<m, last, revision, codec, valueList, vlast, race, run>>

PairsDeleteByIndex ==
    /\ PairsIdle
    /\ \E i \in (-1)..MaxList, cap \in Capacities(pairList.List) :
          LET out == Pairs_DeleteByIndex(pairList, i, cap)
          IN /\ pairList' = out.ps
             /\ plast' = [NoPairsCall EXCEPT !.op = "DeleteByIndex", !.pre = pairList,
                                             !.index = i, !.cap = cap, !.panic = out.panic]
    /\ UNCHANGED <<m, last, revision, codec, valueList, vlast, race, run>>

\* Get, Count, Has, GetFirstOrZeroValue and GetLastOrZeroValue
PairsQuery ==
    /\ PairsIdle
    /\ \E k \in Keys, op \in KeyedQueries :
          LET got == CASE op = "Get" -> Pairs_Get(pairList, k)
                       [] op = "Count" -> Pairs_Count(pairList, k)
                       [] op = "Has" -> Pairs_Has(pairList, k)
                       [] op = "GetFirstOrZeroValue" -> Pairs_GetFirstOrZeroValue(pairList, k)
                       [] op = "GetLastOrZeroValue" -> Pairs_GetLastOrZeroValue(pairList, k)
          IN plast' = [NoPairsCall EXCEPT !.op = op, !.pre = pairList, !.key = k,
                                          !.got = <<got>>]
    /\ UNCHANGED <<m, last, revision, codec, pairList, valueList, vlast, race, run>>

PairsDelete ==
    /\ PairsIdle
    /\ \E k \in Keys :
          /\ pairList' = PairsDeleteOf(pairList, k)
          /\ plast' = [NoPairsCall EXCEPT !.op = "Delete", !.pre = pairList, !.key = k]
    /\ UNCHANGED <<m, last, revision, codec, valueList, vlast, race, run>>

PairsToMap ==
    /\ PairsIdle
    /\ \E s \in Strategies :
          /\ pairList' = pairList
          /\ plast' = [NoPairsCall EXCEPT !.op = "ToMap", !.pre = pairList, !.strategy = s,
                                          !.result = PairsToMapOf(pairList, s)]
    /\ UNCHANGED <<m, last, revision, codec, valueList, vlast, race, run>>

\* the caller goes on with the map ToMap returned: result.Set(k, v)
ToMapResultSet ==
    /\ plast.op = "ToMap"
    /\ \E k \in Keys, v \in Vals :
          plast' = [plast EXCEPT !.op = "ToMap; result.Set", !.key = k, !.value = v,
                                 !.result = Map_Set(plast.result, k, v)]
    /\ UNCHANGED <<m, last, revision, codec, pairList, valueList, vlast, race, run>>

\* the caller goes on with the Pairs it called ToMap on: SetByIndex(i, k, v)
ToMapSourceSet ==
    /\ plast.op = "ToMap"
    /\ \E i \in 0..(Pairs_Len(pairList) - 1), k \in Keys, v \in Vals :
          /\ pairList' = Pairs_SetByIndex(pairList, i, k, v).ps
          /\ plast' = [plast EXCEPT !.op = "ToMap; SetByIndex", !.index = i,
                                    !.key = k, !.value = v]
    /\ UNCHANGED <<m, last, revision, codec, valueList, vlast, race, run>>

PairsDedup ==
    /\ PairsIdle
    /\ \E s \in Strategies :
          LET out == PairsDedupOf(pairList, s)
          IN /\ pairList' = out.ps
             /\ plast' = [NoPairsCall EXCEPT !.op = "Dedup", !.pre = pairList, !.strategy = s,
                                             !.panic = out.panic]
    /\ UNCHANGED <<m, last, revision, codec, valueList, vlast, race, run>>

PairsSort ==
    /\ PairsIdle
    /\ \E less \in LessFuncs :
          /\ pairList' = Pairs_Sort(pairList, less)
          /\ plast' = [NoPairsCall EXCEPT !.op = "Sort", !.pre = pairList, !.less = less]
    /\ UNCHANGED <<m, last, revision, codec, valueList, vlast, race, run>>

PairsFilter ==
    /\ PairsIdle
    /\ \E pred \in FilterFuncs :
          /\ pairList' = Pairs_Filter(pairList, pred)
          /\ plast' = [NoPairsCall EXCEPT !.op = "Filter", !.pre = pairList, !.pred = pred]
    /\ UNCHANGED <<m, last, revision, codec, valueList, vlast, race, run>>

PairsReturn ==
    /\ ~PairsIdle
    /\ plast' = NoPairsCall
    /\ UNCHANGED <<m, last, revision, codec, pairList, valueList, vlast, race, run>>

NextPairs ==
    \/ PairsAdd
    \/ PairsAppend
    \/ PairsSetByIndex
    \/ PairsGetAtIndex
    \/ PairsQuery
    \/ PairsSetKeyByIndex
    \/ PairsSetValueByIndex
    \/ PairsDeleteByIndex
    \/ PairsDelete
    \/ PairsToMap
    \/ ToMapResultSet
    \/ ToMapSourceSet
    \/ PairsDedup
    \/ PairsSort
    \/ PairsFilter
    \/ PairsReturn

SpecPairs == InitPairs /\ [][NextPairs]_vars

SpecPairList == InitPairList /\ [][NextPairs]_vars

\* Calls on a Pairs and decodes, one at a time.
NextDuplicates ==
    \/ /\ codec.op = "none"
       /\ NextPairs
    \/ /\ PairsIdle
       /\ pairList = NewPairs
       /\ NextJSON

SpecDuplicates == InitPairs /\ [][NextDuplicates]_vars

(***************************************************************************)
(* Calls on a List.  `vlast` is the record of the call that has just       *)
(* returned.                                                               *)
(***************************************************************************)
ListIdle == vlast.op = "none"

ListGet ==
    /\ ListIdle
    /\ UNCHANGED <<m, last, revision, codec, pairList, plast, race, run>>
    /\ \E i \in Indexes :
          LET out == List_Get(valueList, i)
          IN /\ valueList' = out.l
             /\ vlast' = [NoListCall EXCEPT !.op = "Get", !.pre = valueList, !.index = i,
                                            !.value = out.value, !.panic = out.panic]

ListSet ==
    /\ ListIdle
    /\ UNCHANGED <<m, last, revision, codec, pairList, plast, race, run>>
    /\ \E i \in Indexes, v \in Vals :
          LET out == List_Set(valueList, i, v)
          IN /\ valueList' = out.l
             /\ vlast' = [NoListCall EXCEPT !.op = "Set", !.pre = valueList, !.index = i,
                                            !.value = v, !.panic = out.panic]

ListAppend ==
    /\ ListIdle
    /\ UNCHANGED <<m, last, revision, codec, pairList, plast, race, run>>
    /\ \E vs \in SeqsUpTo(Vals, MaxPairs) :
          /\ List_Len(List_Append(valueList, vs)) <= MaxList
          /\ valueList' = List_Append(valueList, vs)
          /\ vlast' = [NoListCall EXCEPT !.op = "Append", !.pre = valueList, !.values = vs]

ListDelete ==
    /\ ListIdle
    /\ UNCHANGED <<m, last, revision, codec, pairList, plast, race, run>>
    /\ \E i \in Indexes, cap \in Capacities(valueList.List) :
          LET out == List_Delete(valueList, i, cap)
          IN /\ valueList' = out.l
             /\ vlast' = [NoListCall EXCEPT !.op = "Delete", !.pre = valueList, !.index = i,
                                            !.cap = cap, !.panic = out.panic]

ListReturn ==
    /\ ~ListIdle
    /\ vlast' = NoListCall
    /\ UNCHANGED <<m, last, revision, codec, pairList, plast, valueList, race, run>>

NextList ==
    \/ ListGet
    \/ ListSet
    \/ ListAppend
    \/ ListDelete
    \/ ListReturn

\* Calls on a Map, on a Pairs and on a List, one container at a time.
NextContainers ==
    \/ /\ PairsIdle
       /\ pairList = NewPairs
       /\ ListIdle
       /\ valueList = NewList
       /\ Next
    \/ /\ Idle
       /\ m = NewMap
       /\ ListIdle
       /\ valueList = NewList
       /\ NextPairs
    \/ /\ Idle
       /\ m = NewMap
       /\ PairsIdle
       /\ pairList = NewPairs
       /\ NextList

SpecContainers == InitPairs /\ [][NextContainers]_vars

(***************************************************************************)
(* Claims about the Map.                                                   *)
(***************************************************************************)
Range(s) == {s[i] : i \in 1..Len(s)}

NoDuplicates(s) == \A i, j \in 1..Len(s) : s[i] = s[j] => i = j

\* s without every occurrence of x
Without(s, x) ==
    LET keep(y) == y # x
    IN SelectSeq(s, keep)

OthersUnchanged(k) ==
    \A o \in (DOMAIN last.pre.inner) \ {k} :
        o \in DOMAIN m.inner /\ m.inner[o] = last.pre.inner[o]

AddOnExisting(strategy) ==
    /\ last.op = "Add"
    /\ last.pre.duplicatedKeyStrategy = strategy
    /\ last.key \in DOMAIN last.pre.inner

\* C1: after any sequence of Set, Add, Append, Delete, DeleteByIndex, Clear,
\* Sort and Filter calls under any strategy value, the order index lists
\* exactly the keys of the hash table, each once, so len(order) = Len().
C1_OrderInnerBijection ==
    /\ Range(m.order) = DOMAIN m.inner
    /\ NoDuplicates(m.order)
    /\ Len(m.order) = Map_Len(m)

C3_UpdateValueUpdateOrder ==
    AddOnExisting(UpdateValueUpdateOrder) =>
        /\ m.order = Without(last.pre.order, last.key) \o <<last.key>>
        /\ DOMAIN m.inner = DOMAIN last.pre.inner
        /\ m.inner[last.key] = last.value
        /\ OthersUnchanged(last.key)
        /\ Map_Len(m) = Map_Len(last.pre)

C3_Witness ==
    /\ AddOnExisting(UpdateValueUpdateOrder)
    /\ Len(last.pre.order) = 3
    /\ last.pre.order[1] = last.key
    /\ last.pre.inner[last.key] # last.value
    /\ m.order[3] = last.key

\* C4: under KeepValueUpdateOrder, Add on a present key moves the key to
\* the end but keeps its old value; the other keys keep their relative
\* order and values and Len() is unchanged.
C4_KeepValueUpdateOrder ==
    AddOnExisting(KeepValueUpdateOrder) =>
        /\ m.order = Without(last.pre.order, last.key) \o <<last.key>>
        /\ m.inner = last.pre.inner
        /\ Map_Len(m) = Map_Len(last.pre)

C4_Witness ==
    /\ AddOnExisting(KeepValueUpdateOrder)
    /\ Len(last.pre.order) = 3
    /\ last.pre.order[1] = last.key
    /\ last.pre.inner[last.key] # last.value
    /\ m.order[3] = last.key
    /\ m.inner[last.key] # last.value

\* C5: under Ignore, Add on a present key changes nothing: order index,
\* every value and Len() are as before the call.
C5_IgnoreIsNoOp ==
    AddOnExisting(Ignore) => m = last.pre

C5_Witness ==
    /\ AddOnExisting(Ignore)
    /\ Len(last.pre.order) = 3
    /\ last.pre.order[1] = last.key
    /\ last.pre.inner[last.key] # last.value
    /\ m = last.pre

\* C6: under a strategy value that is none of the four named ones, Add does
\* what it does under UpdateValueKeepOrder: on a present key the value is
\* replaced, the key keeps its position and the order index gets no entry.
C6_OutOfRangeIsKeepOrder ==
    (last.op = "Add" /\ last.pre.duplicatedKeyStrategy \notin NamedStrategies) =>
        LET asDefault == AddOf([last.pre EXCEPT !.duplicatedKeyStrategy =
                                    UpdateValueKeepOrder], last.key, last.value)
        IN /\ m.order = asDefault.order
           /\ m.inner = asDefault.inner
           /\ (last.key \in DOMAIN last.pre.inner => m.order = last.pre.order)

\* C7: Add leaves the map as Set does whenever the key is new (any
\* strategy), and in every state under UpdateValueKeepOrder.
C7_AddIsSet ==
    (/\ last.op = "Add"
     /\ \/ last.key \notin DOMAIN last.pre.inner
        \/ last.pre.duplicatedKeyStrategy = UpdateValueKeepOrder)
        => m = Map_Set(last.pre, last.key, last.value)

C7_Witness ==
    /\ last.op = "Add"
    /\ last.key \notin DOMAIN last.pre.inner
    /\ last.pre.duplicatedKeyStrategy = KeepValueUpdateOrder
    /\ Len(last.pre.order) = 2
    /\ m.order = last.pre.order \o <<last.key>>
    /\ m.inner[last.key] = last.value

\* C8: Append(p1, ..., pn) leaves the map as Add(p1), ..., Add(pn) made in
\* that order under the map's strategy do, also when pairs repeat a key.
RECURSIVE AddInTurn(_, _)
AddInTurn(mp, pairs) ==
    IF pairs = <<>> THEN mp
    ELSE AddInTurn(AddOf(mp, Head(pairs).Key, Head(pairs).Value), Tail(pairs))

C8_AppendIsAddInTurn ==
    last.op = "Append" => m = AddInTurn(last.pre, last.pairs)

C8_Witness ==
    /\ last.op = "Append"
    /\ Len(last.pairs) = 2
    /\ last.pairs[1].Key = last.pairs[2].Key
    /\ last.pairs[1].Value # last.pairs[2].Value
    /\ last.pairs[1].Key \in DOMAIN last.pre.inner
    /\ last.pre.duplicatedKeyStrategy = UpdateValueUpdateOrder
    /\ Len(last.pre.order) = 3
    /\ last.pre.order[1] = last.pairs[1].Key
    /\ m.order[3] = last.pairs[1].Key
    /\ m.inner[last.pairs[1].Key] = last.pairs[2].Value

(***************************************************************************)
(* Claims about the JSON codec.                                            *)
(***************************************************************************)
\* The value of a document when every object is built by Add, member after
\* member in the order of the text, on a new map with the given strategy.
RECURSIVE DocValue(_, _, _)
RECURSIVE AddMembers(_, _, _, _)
DocValue(doc, useNumber, strategy) ==
    CASE doc.j = "num" ->
            IF useNumber THEN [kind |-> "Number", n |-> doc.n]
            ELSE [kind |-> "float64", n |-> ParseFloat(doc.n)]
      [] doc.j = "obj" ->
            MapObject(AddMembers(Map_SetDuplicatedKeyStrategy(NewMap, strategy),
                                 doc.members, useNumber, strategy))
      [] doc.j = "arr" ->
            ListValue([List |-> [i \in 1..Len(doc.elems) |->
                                    DocValue(doc.elems[i], useNumber, strategy)]])

AddMembers(mp, members, useNumber, strategy) ==
    IF members = <<>> THEN mp
    ELSE AddMembers(Map_Add(mp, Head(members).name,
                            DocValue(Head(members).value, useNumber, strategy)),
                    Tail(members), useNumber, strategy)

\* the object a:1, b:2, a:3
DuplicatedKeyExample ==
    JObj(<<Member(1, JNum(Shortest(1))), Member(2, JNum(Shortest(2))),
           Member(1, JNum(Shortest(3)))>>)

NumberOf(v) == IF v.kind = "Number" THEN ParseFloat(v.n) ELSE v.n
NumbersOf(values) == [i \in 1..Len(values) |-> NumberOf(values[i])]

ExampleKeys(strategy) ==
    CASE strategy = UpdateValueKeepOrder -> <<1, 2>>
      [] strategy = UpdateValueUpdateOrder -> <<2, 1>>
      [] strategy = KeepValueUpdateOrder -> <<2, 1>>
      [] strategy = Ignore -> <<1, 2>>

ExampleValues(strategy) ==
    CASE strategy = UpdateValueKeepOrder -> <<3, 2>>
      [] strategy = UpdateValueUpdateOrder -> <<2, 3>>
      [] strategy = KeepValueUpdateOrder -> <<2, 1>>
      [] strategy = Ignore -> <<1, 2>>

\* the text is a document of the kind the target of the decode takes
TargetMatches ==
    /\ codec.op \notin {"json.Marshal", "Decode"}
    /\ codec.op \in {"Map.UnmarshalJSON", "Pairs.UnmarshalJSON"} =>
          codec.doc.j = "obj" /\ codec.keyType = "string"
    /\ codec.op = "List.UnmarshalJSON" => codec.doc.j = "arr" /\ codec.elemIsAny

InMapMode ==
    /\ codec.op # "none"
    /\ codec.trailer = <<>>
    /\ ~codec.opts.usePairs
    /\ TargetMatches

\* C9: a decode in map mode succeeds and yields, for every object of the
\* text, the map that Add of each member in textual order builds under the
\* configured strategy; for a:1, b:2, a:3 the keys and values are [a,b]
\* [3,2] under UpdateValueKeepOrder, [b,a] [2,3] under
\* UpdateValueUpdateOrder, [b,a] [2,1] under KeepValueUpdateOrder and [a,b]
\* [1,2] under Ignore.
C9_DecodeIsAddPerMember ==
    InMapMode =>
        /\ codec.err = "nil"
        /\ codec.value = DocValue(codec.doc, codec.opts.useNumber,
                                  codec.opts.duplicatedKeyStrategy)
        /\ (/\ codec.doc = DuplicatedKeyExample
            /\ codec.opts.duplicatedKeyStrategy \in NamedStrategies)
            => /\ Map_Keys(codec.value.map)
                    = ExampleKeys(codec.opts.duplicatedKeyStrategy)
               /\ ~Map_Values(codec.value.map).panic
               /\ NumbersOf(Map_Values(codec.value.map).values)
                    = ExampleValues(codec.opts.duplicatedKeyStrategy)

C9_Witness ==
    /\ codec.op = "Map.UnmarshalJSON"
    /\ codec.doc = DuplicatedKeyExample
    /\ codec.opts.duplicatedKeyStrategy = KeepValueUpdateOrder
    /\ codec.err = "nil"
    /\ Map_Keys(codec.value.map) = <<2, 1>>
    /\ NumbersOf(Map_Values(codec.value.map).values) = <<2, 1>>

\* no object of the document has two members of the same name
RECURSIVE SingleValued(_)
SingleValued(doc) ==
    CASE doc.j = "num" -> TRUE
      [] doc.j = "obj" ->
            /\ \A i, j \in 1..Len(doc.members) :
                  doc.members[i].name = doc.members[j].name => i = j
            /\ \A i \in 1..Len(doc.members) : SingleValued(doc.members[i].value)
      [] doc.j = "arr" -> \A i \in 1..Len(doc.elems) : SingleValued(doc.elems[i])

\* the text without white space and, where numbers were decoded as float64,
\* with every number in the literal float64 is written with
SameValues(data, useNumber) ==
    LET compact == Compact(data)
    IN [i \in 1..Len(compact) |->
            IF compact[i].t = "num" /\ ~useNumber
            THEN Lex("num", FormatFloat(ParseFloat(compact[i].v)))
            ELSE compact[i]]

\* the members of an object at the indexes i..Len()-1 as they are written
RECURSIVE MembersFromIndex(_, _)
MembersFromIndex(object, i) ==
    IF i >= Object_Len(object) THEN <<>>
    ELSE (IF i > 0 THEN <<Lex(",", 0)>> ELSE <<>>)
            \o <<Lex("str", Object_GetByIndex(object, i).Key), Lex(":", 0)>>
            \o JSONMarshal(Object_GetByIndex(object, i).Value).bytes
            \o MembersFromIndex(object, i + 1)

\* C10: the encoding of a decoded text has the members of every object in
\* the order and with the values of the text, in pair mode for every text
\* (duplicated keys stay where they are) and in map mode for every text
\* without duplicated keys; an object is written as its members at the
\* indexes 0..Len()-1 in that order.
C10_DecodeEncodeRoundTrip ==
    (codec.encoded /\ TargetMatches) =>
        /\ codec.outErr = "nil"
        /\ (codec.opts.usePairs \/ SingleValued(codec.doc))
            => codec.out = SameValues(codec.data, codec.opts.useNumber)
        /\ codec.value.kind \in {"Map", "Pairs"}
            => codec.out = <<Lex("{", 0)>> \o MembersFromIndex(codec.value, 0)
                                \o <<Lex("}", 0)>>

C10_Witness ==
    /\ codec.encoded
    /\ codec.op = "JSONUnmarshal"
    /\ codec.opts.usePairs
    /\ codec.doc = DuplicatedKeyExample
    /\ codec.data # Text(codec.doc)
    /\ codec.value.kind = "Pairs"
    /\ Pairs_Len(codec.value.pairs) = 3
    /\ codec.out = Text(codec.doc)

\* the containers and numbers of a decoded value are those the options ask
\* for, at every depth
RECURSIVE FollowsOptions(_, _)
FollowsOptions(v, opts) ==
    CASE v.kind = "Map" ->
            /\ ~opts.usePairs
            /\ v.map.duplicatedKeyStrategy = opts.duplicatedKeyStrategy
            /\ \A k \in DOMAIN v.map.inner : FollowsOptions(v.map.inner[k], opts)
      [] v.kind = "Pairs" ->
            /\ opts.usePairs
            /\ \A i \in 1..Len(v.pairs.List) : FollowsOptions(v.pairs.List[i].Value, opts)
      [] v.kind = "List" ->
            \A i \in 1..Len(v.list.List) : FollowsOptions(v.list.List[i], opts)
      [] v.kind = "Number" -> opts.useNumber
      [] v.kind = "float64" -> ~opts.useNumber
      [] OTHER -> TRUE

\* The value of a document under the options of the call: an object is a
\* new map with the configured strategy after Add of its members, or the
\* Pairs of its members; an array is the List of its elements.
RECURSIVE ValueUnder(_, _)
RECURSIVE MembersUnder(_, _, _)
ValueUnder(doc, opts) ==
    CASE doc.j = "num" ->
            IF opts.useNumber THEN [kind |-> "Number", n |-> doc.n]
            ELSE [kind |-> "float64", n |-> ParseFloat(doc.n)]
      [] doc.j = "obj" ->
            MembersUnder(IF opts.usePairs THEN PairsObject(NewPairs)
                         ELSE MapObject(Map_SetDuplicatedKeyStrategy(
                                            NewMap, opts.duplicatedKeyStrategy)),
                         doc.members, opts)
      [] doc.j = "arr" ->
            ListValue([List |-> [i \in 1..Len(doc.elems) |-> ValueUnder(doc.elems[i], opts)]])

MembersUnder(object, members, opts) ==
    IF members = <<>> THEN object
    ELSE LET v == ValueUnder(Head(members).value, opts)
         IN MembersUnder(IF object.kind = "Map"
                         THEN MapObject(Map_Add(object.map, Head(members).name, v))
                         ELSE PairsObject([List |-> Append(object.pairs.List,
                                                CreatePair(Head(members).name, v))]),
                         Tail(members), opts)

Decoded ==
    /\ codec.op # "none"
    /\ codec.trailer = <<>>
    /\ TargetMatches

\* C11: the options of a decode call hold at every depth: every object of
\* the text becomes the configured container (Map or Pairs), every such Map
\* carries the configured strategy, out-of-range values too, and is what
\* Add of its members under that strategy builds, every array becomes a
\* List and every number follows the configured number mode.
C11_OptionsAtEveryDepth ==
    Decoded =>
        /\ codec.err = "nil"
        /\ FollowsOptions(codec.value, codec.opts)
        /\ codec.value = ValueUnder(codec.doc, codec.opts)

\* an object with a duplicated name inside an array inside an object,
\* decoded into maps with an out-of-range strategy and json.Number
C11_Witness ==
    /\ codec.op = "JSONUnmarshal"
    /\ codec.err = "nil"
    /\ codec.opts.useNumber
    /\ ~codec.opts.usePairs
    /\ codec.opts.duplicatedKeyStrategy \notin NamedStrategies
    /\ codec.doc.j = "obj"
    /\ Len(codec.doc.members) = 1
    /\ codec.doc.members[1].value.j = "arr"
    /\ ~SingleValued(codec.doc)
    /\ codec.value.kind = "Map"
    /\ LET list == codec.value.map.inner[codec.doc.members[1].name]
       IN /\ list.kind = "List"
          /\ list.list.List[1].kind = "Map"
          /\ list.list.List[1].map.duplicatedKeyStrategy = codec.opts.duplicatedKeyStrategy
          /\ Map_Len(list.list.List[1].map) = 1
          /\ \A k \in DOMAIN list.list.List[1].map.inner :
                list.list.List[1].map.inner[k].kind = "Number"

(***************************************************************************)
(* Claims about Pairs.                                                     *)
(***************************************************************************)
\* C12: Add(k, v) on a Pairs appends exactly the entry (k, v), also when k
\* is present: Len() grows by one and every earlier entry keeps its place,
\* key and value; Append(p1..pn) appends the pairs in argument order.
C12_PairsAddAppends ==
    /\ plast.op = "Add" =>
          /\ Pairs_Len(pairList) = Pairs_Len(plast.pre) + 1
          /\ \A i \in 1..Len(plast.pre.List) : pairList.List[i] = plast.pre.List[i]
          /\ pairList.List[Len(pairList.List)] = CreatePair(plast.key, plast.value)
    /\ plast.op = "Append" =>
          /\ Pairs_Len(pairList) = Pairs_Len(plast.pre) + Len(plast.pairs)
          /\ \A i \in 1..Len(plast.pre.List) : pairList.List[i] = plast.pre.List[i]
          /\ \A i \in 1..Len(plast.pairs) :
                pairList.List[Len(plast.pre.List) + i] = plast.pairs[i]

C12_Witness ==
    /\ plast.op = "Add"
    /\ Pairs_Has(plast.pre, plast.key)
    /\ Pairs_Len(plast.pre) = 2
    /\ Pairs_Count(pairList, plast.key) = 3
    /\ pairList.List[3].Value # pairList.List[1].Value

\* the entries of a list whose key is not k, in their order
RECURSIVE WithoutKey(_, _)
WithoutKey(list, k) ==
    IF list = <<>> THEN <<>>
    ELSE (IF Head(list).Key = k THEN <<>> ELSE <<Head(list)>>) \o WithoutKey(Tail(list), k)

\* C13: Delete(k) on a Pairs removes every entry of key k and no other
\* entry, the others keep their relative order and values; nothing changes
\* when k is absent; afterwards Has(k) is false and Len() is lower by the
\* former Count(k).
C13_PairsDeleteRemovesKey ==
    plast.op = "Delete" =>
        /\ pairList.List = WithoutKey(plast.pre.List, plast.key)
        /\ ~Pairs_Has(plast.pre, plast.key) => pairList = plast.pre
        /\ ~Pairs_Has(pairList, plast.key)
        /\ Pairs_Len(pairList) = Pairs_Len(plast.pre) - Pairs_Count(plast.pre, plast.key)

\* the map ToMap(strategy) is to return for a list
ReplayedMap(list, strategy) ==
    AddInTurn(Map_SetDuplicatedKeyStrategy(NewMap, strategy), list)

\* C14: ToMap(strategy) returns the empty map with that strategy after Add
\* of every pair in list order and leaves the Pairs unchanged; a later Set
\* on the map leaves the Pairs as it is, a later SetByIndex on the Pairs
\* leaves the map as it is.
C14_ToMapReplaysAdd ==
    /\ plast.op = "ToMap" =>
          /\ plast.result = ReplayedMap(plast.pre.List, plast.strategy)
          /\ pairList = plast.pre
    /\ plast.op = "ToMap; result.Set" =>
          /\ plast.result = Map_Set(ReplayedMap(plast.pre.List, plast.strategy),
                                    plast.key, plast.value)
          /\ pairList = plast.pre
    /\ plast.op = "ToMap; SetByIndex" =>
          /\ plast.result = ReplayedMap(plast.pre.List, plast.strategy)
          /\ pairList = Pairs_SetByIndex(plast.pre, plast.index, plast.key, plast.value).ps

C14_Witness ==
    /\ plast.op = "ToMap; SetByIndex"
    /\ plast.strategy = KeepValueUpdateOrder
    /\ Pairs_Len(plast.pre) = 3
    /\ plast.pre.List[1].Key = plast.pre.List[3].Key
    /\ plast.pre.List[1].Value # plast.pre.List[3].Value
    /\ plast.pre.List[2].Key # plast.pre.List[1].Key
    /\ plast.result.order = <<plast.pre.List[2].Key, plast.pre.List[1].Key>>
    /\ plast.result.inner[plast.pre.List[1].Key] = plast.pre.List[1].Value
    /\ plast.index = 0
    /\ pairList # plast.pre
    /\ ~Map_Has(plast.result, plast.key)

\* the pairs of a map with consistent order and table, in order
PairsOfMap(mp) == [i \in 1..Len(mp.order) |-> CreatePair(mp.order[i], mp.inner[mp.order[i]])]

KeysOf(list) == {list[i].Key : i \in 1..Len(list)}

\* C15: Dedup(strategy) replaces the content by ToMap(strategy).Pairs() of
\* the content before; afterwards every key that was present occurs exactly
\* once and no other key occurs.
C15_DedupIsToMapPairs ==
    plast.op = "Dedup" =>
        /\ ~plast.panic
        /\ pairList.List = PairsOfMap(ReplayedMap(plast.pre.List, plast.strategy))
        /\ KeysOf(pairList.List) = KeysOf(plast.pre.List)
        /\ \A k \in KeysOf(plast.pre.List) : Pairs_Count(pairList, k) = 1

C15_Witness ==
    /\ plast.op = "Dedup"
    /\ plast.strategy = UpdateValueUpdateOrder
    /\ Pairs_Len(plast.pre) = 3
    /\ plast.pre.List[1].Key = plast.pre.List[3].Key
    /\ plast.pre.List[1].Value # plast.pre.List[3].Value
    /\ plast.pre.List[2].Key # plast.pre.List[1].Key
    /\ pairList.List = <<plast.pre.List[2], plast.pre.List[3]>>

\* the entries of a list that are the first, or the last, of their key
RECURSIVE FirstOccurrencesFrom(_, _)
FirstOccurrencesFrom(list, i) ==
    IF i > Len(list) THEN <<>>
    ELSE (IF \E j \in 1..(i - 1) : list[j].Key = list[i].Key THEN <<>> ELSE <<list[i]>>)
            \o FirstOccurrencesFrom(list, i + 1)

RECURSIVE LastOccurrencesFrom(_, _)
LastOccurrencesFrom(list, i) ==
    IF i > Len(list) THEN <<>>
    ELSE (IF \E j \in (i + 1)..Len(list) : list[j].Key = list[i].Key
          THEN <<>> ELSE <<list[i]>>)
            \o LastOccurrencesFrom(list, i + 1)

KeptOccurrences(list, strategy) ==
    IF strategy = Ignore THEN FirstOccurrencesFrom(list, 1)
    ELSE LastOccurrencesFrom(list, 1)

\* the map that holds the kept entries of a list in their order
MapOfKept(list, strategy) ==
    LET kept == KeptOccurrences(list, strategy)
    IN [order |-> [i \in 1..Len(kept) |-> kept[i].Key],
        inner |-> [k \in KeysOf(kept) |->
                      kept[CHOOSE i \in 1..Len(kept) : kept[i].Key = k].Value],
        innerIsNil |-> list = <<>>,
        duplicatedKeyStrategy |-> strategy]

\* the value of a document when every object keeps of each name the first,
\* or the last, member
RECURSIVE KeptValue(_, _)
KeptValue(doc, opts) ==
    CASE doc.j = "num" ->
            IF opts.useNumber THEN [kind |-> "Number", n |-> doc.n]
            ELSE [kind |-> "float64", n |-> ParseFloat(doc.n)]
      [] doc.j = "obj" ->
            MapObject(MapOfKept([i \in 1..Len(doc.members) |->
                                    CreatePair(doc.members[i].name,
                                               KeptValue(doc.members[i].value, opts))],
                                opts.duplicatedKeyStrategy))
      [] doc.j = "arr" ->
            ListValue([List |-> [i \in 1..Len(doc.elems) |-> KeptValue(doc.elems[i], opts)]])

FirstOrLast == {Ignore, UpdateValueUpdateOrder}

\* C16: where the duplicates of a pair sequence are resolved (ToMap, Dedup,
\* a decode in map mode), Ignore keeps of each key exactly the first
\* occurrence (its value, keys in the order of the first occurrences) and
\* UpdateValueUpdateOrder exactly the last occurrence (its value, keys in
\* the order of the last occurrences).
C16_FirstOrLastOccurrence ==
    /\ (plast.op = "ToMap" /\ plast.strategy \in FirstOrLast) =>
          plast.result = MapOfKept(plast.pre.List, plast.strategy)
    /\ (plast.op = "Dedup" /\ plast.strategy \in FirstOrLast) =>
          pairList.List = KeptOccurrences(plast.pre.List, plast.strategy)
    /\ (/\ Decoded
        /\ ~codec.opts.usePairs
        /\ codec.opts.duplicatedKeyStrategy \in FirstOrLast) =>
          codec.value = KeptValue(codec.doc, codec.opts)

C16_Witness ==
    /\ codec.op = "JSONUnmarshal"
    /\ ~codec.opts.usePairs
    /\ codec.opts.duplicatedKeyStrategy = Ignore
    /\ codec.doc = DuplicatedKeyExample
    /\ Map_Keys(codec.value.map) = <<1, 2>>
    /\ NumbersOf(Map_Values(codec.value.map).values) = <<1, 2>>

(***************************************************************************)
(* Claims about Delete, Filter, Sort and the copies a Map hands out.       *)
(***************************************************************************)
\* C17: Delete(k) with k present takes k out of the hash table and of the
\* order index, the other keys keep their relative order and values, Len()
\* is lower by one; with k absent nothing changes; DeleteByIndex(i) with
\* 0 <= i < Len() does what Delete(GetKeyByIndex(i)) does; a key deleted
\* and then set again is at the end of the order.
C17_MapDelete ==
    /\ (last.op = "Delete" /\ Map_Has(last.pre, last.key)) =>
          /\ ~Map_Has(m, last.key)
          /\ DOMAIN m.inner = (DOMAIN last.pre.inner) \ {last.key}
          /\ OthersUnchanged(last.key)
          /\ m.order = Without(last.pre.order, last.key)
          /\ Len(m.order) = Len(last.pre.order) - 1
          /\ Map_Len(m) = Map_Len(last.pre) - 1
    /\ (last.op = "Delete" /\ ~Map_Has(last.pre, last.key)) => m = last.pre
    /\ (last.op = "DeleteByIndex" /\ 0 <= last.index /\ last.index < Map_Len(last.pre)) =>
          /\ ~last.panic
          /\ m = Map_Delete(last.pre, Map_GetKeyByIndex(last.pre, last.index))
          /\ ~Map_Has(m, Map_GetKeyByIndex(last.pre, last.index))
    /\ (last.op = "Delete; Set" /\ Map_Has(last.pre, last.key)) =>
          /\ m.order = Without(last.pre.order, last.key) \o <<last.key>>
          /\ m.inner[last.key] = last.value
          /\ OthersUnchanged(last.key)

C17_Witness ==
    /\ last.op = "Delete; Set"
    /\ Len(last.pre.order) = 3
    /\ last.pre.order[1] = last.key
    /\ m.order = <<last.pre.order[2], last.pre.order[3], last.key>>
    /\ m.inner[last.key] # last.pre.inner[last.key]

\* the entries of a list that satisfy pred, in their order
RECURSIVE Satisfying(_, _)
Satisfying(list, pred) ==
    IF list = <<>> THEN <<>>
    ELSE (IF PairFilterFunc(pred, Head(list)) THEN <<Head(list)>> ELSE <<>>)
            \o Satisfying(Tail(list), pred)

\* C18: Filter(pred) on a Map or a Pairs keeps exactly the entries whose
\* (key, value) pair satisfies pred, in their former relative order and
\* with their values; on a Map every rejected key leaves the order index
\* and the hash table, and Len() is the number of kept entries.
C18_FilterKeepsSatisfying ==
    /\ plast.op = "Filter" =>
          pairList.List = Satisfying(plast.pre.List, plast.pred)
    /\ last.op = "Filter" =>
          /\ ~last.panic
          /\ PairsOfMap(m) = Satisfying(PairsOfMap(last.pre), last.pred)
          /\ DOMAIN m.inner = Range(m.order)
          /\ Map_Len(m) = Len(Satisfying(PairsOfMap(last.pre), last.pred))
          /\ m.duplicatedKeyStrategy = last.pre.duplicatedKeyStrategy

C18_Witness ==
    /\ last.op = "Filter"
    /\ last.pred.by = "value"
    /\ Len(last.pre.order) = 3
    /\ Len(m.order) = 2
    /\ m.order = <<last.pre.order[1], last.pre.order[3]>>
    /\ ~Map_Has(m, last.pre.order[2])

\* less orders neither a before b nor b before a
Unordered(less, a, b) == ~PairLessFunc(less, a, b) /\ ~PairLessFunc(less, b, a)

\* the entries of a list that less does not order against x, in their order
RECURSIVE UnorderedWith(_, _, _)
UnorderedWith(list, less, x) ==
    IF list = <<>> THEN <<>>
    ELSE (IF Unordered(less, Head(list), x) THEN <<Head(list)>> ELSE <<>>)
            \o UnorderedWith(Tail(list), less, x)

\* `after` is `before` sorted by less, stably: no entry is in front of one
\* that less puts before it, and the entries less does not order are the
\* same ones in the same order (so `after` is a permutation of `before`)
StablySorted(before, after, less) ==
    /\ Len(after) = Len(before)
    /\ \A i, j \in 1..Len(after) : i < j => ~PairLessFunc(less, after[j], after[i])
    /\ \A x \in Range(before) \cup Range(after) :
          UnorderedWith(after, less, x) = UnorderedWith(before, less, x)

\* C19: Sort(less) is a stable sort.  On a Pairs the list becomes a
\* permutation of the former entries ordered by less in which the entries
\* less does not order keep their relative order.  On a Map the order index
\* becomes the key order of that stable sort of Pairs(); the key set, every
\* value and Len() stay.
C19_SortIsStable ==
    /\ plast.op = "Sort" => StablySorted(plast.pre.List, pairList.List, plast.less)
    /\ last.op = "Sort" =>
          /\ ~last.panic
          /\ StablySorted(PairsOfMap(last.pre), PairsOfMap(m), last.less)
          /\ m.inner = last.pre.inner
          /\ Map_Len(m) = Map_Len(last.pre)
          /\ m.duplicatedKeyStrategy = last.pre.duplicatedKeyStrategy

\* three entries, the first two not ordered by less and the third before both
C19_Witness ==
    /\ plast.op = "Sort"
    /\ Pairs_Len(plast.pre) = 3
    /\ plast.pre.List[1] # plast.pre.List[2]
    /\ Unordered(plast.less, plast.pre.List[1], plast.pre.List[2])
    /\ PairLessFunc(plast.less, plast.pre.List[3], plast.pre.List[1])
    /\ pairList.List = <<plast.pre.List[3], plast.pre.List[1], plast.pre.List[2]>>

(***************************************************************************)
(* Claims about positions.                                                 *)
(***************************************************************************)
MapPositional == {"GetKeyByIndex", "GetByIndex", "GetValueByIndex", "DeleteByIndex"}

PairsPositional ==
    {"GetKeyByIndex", "GetByIndex", "GetValueByIndex", "DeleteByIndex",
     "SetByIndex", "SetKeyByIndex", "SetValueByIndex"}

ListPositional == {"Get", "Set", "Delete"}

OutOfRange(index, length) == index < 0 \/ index >= length

\* C21: on a Map, a Pairs and a List every positional operation panics when
\* the index is negative or >= Len(), on an empty container too, and then
\* leaves the container as it was; it does not panic when 0 <= index < Len().
C21_PositionalFaults ==
    /\ last.op \in MapPositional =>
          /\ last.panic <=> OutOfRange(last.index, Map_Len(last.pre))
          /\ last.panic => m = last.pre
    /\ plast.op \in PairsPositional =>
          /\ plast.panic <=> OutOfRange(plast.index, Pairs_Len(plast.pre))
          /\ plast.panic => pairList = plast.pre
    /\ vlast.op \in ListPositional =>
          /\ vlast.panic <=> OutOfRange(vlast.index, List_Len(vlast.pre))
          /\ vlast.panic => valueList = vlast.pre

\* Delete(Len()) on a List of two elements whose backing array has room for
\* a third
C21_Witness ==
    /\ vlast.op = "Delete"
    /\ List_Len(vlast.pre) = 2
    /\ vlast.index = 2
    /\ vlast.cap = 3
    /\ vlast.panic
    /\ valueList = vlast.pre

\* C24: Delete(i) on a List and DeleteByIndex(i) on a Pairs with
\* 0 <= i < Len() remove the element at position i and move every later
\* element down by one; the other elements keep their order and values and
\* Len() drops by one.
C24_DeleteShiftsDown ==
    /\ (vlast.op = "Delete" /\ ~OutOfRange(vlast.index, List_Len(vlast.pre))) =>
          /\ List_Len(valueList) = List_Len(vlast.pre) - 1
          /\ \A j \in 1..List_Len(valueList) :
                valueList.List[j] =
                    vlast.pre.List[IF j <= vlast.index THEN j ELSE j + 1]
    /\ (plast.op = "DeleteByIndex" /\ ~OutOfRange(plast.index, Pairs_Len(plast.pre))) =>
          /\ Pairs_Len(pairList) = Pairs_Len(plast.pre) - 1
          /\ \A j \in 1..Pairs_Len(pairList) :
                pairList.List[j] =
                    plast.pre.List[IF j <= plast.index THEN j ELSE j + 1]

\* the first of three entries goes, the entry after it has the same key
C24_Witness ==
    /\ plast.op = "DeleteByIndex"
    /\ plast.index = 0
    /\ Pairs_Len(plast.pre) = 3
    /\ plast.pre.List[1].Key = plast.pre.List[2].Key
    /\ plast.pre.List[2] # plast.pre.List[3]
    /\ pairList.List = <<plast.pre.List[2], plast.pre.List[3]>>

\* the keys of a sequence, each at its first occurrence
RECURSIVE FirstKeys(_)
FirstKeys(keys) ==
    IF keys = <<>> THEN <<>>
    ELSE LET front == FirstKeys(SubSeq(keys, 1, Len(keys) - 1))
             k == keys[Len(keys)]
         IN IF k \in Range(front) THEN front ELSE Append(front, k)

Emptied(mp) == mp.order = <<>> /\ mp.inner = EmptyInner

\* C22: Clear() empties the hash table and the order index: Len() = 0,
\* Keys() is empty, no key is present.  On a cleared map, as on a new one,
\* no operation panics but a positional one, whose index is then out of
\* range; the keys set after a Clear are ordered by their insertion after
\* it, whatever the order before it was.
C22_ClearEmpties ==
    /\ last.op = "Clear" =>
          /\ Map_Len(m) = 0
          /\ Map_Keys(m) = <<>>
          /\ \A k \in Keys : ~Map_Has(m, k)
          /\ m.order = <<>>
          /\ ~last.panic
    /\ (Emptied(last.pre) /\ ~Idle /\ last.op # "Clear; Set") =>
          (last.panic <=> last.op \in MapPositional)
    /\ last.op = "Clear; Set" =>
          /\ ~last.panic
          /\ m.order = FirstKeys(last.made)
          /\ DOMAIN m.inner = Range(last.made)
          /\ m.inner[last.key] = last.value

\* a map with the order 1, 2 is cleared and gets 2 and then 1
C22_Witness ==
    /\ last.op = "Clear; Set"
    /\ last.pre.order = <<1, 2>>
    /\ last.made = <<2, 1>>
    /\ m.order = <<2, 1>>

\* the values of the entries of a list that have the key k, in their order
RECURSIVE ValuesOfKey(_, _)
ValuesOfKey(list, k) ==
    IF list = <<>> THEN <<>>
    ELSE (IF Head(list).Key = k THEN <<Head(list).Value>> ELSE <<>>)
            \o ValuesOfKey(Tail(list), k)

\* C23: on a Pairs the keyed queries agree with the entries that have the
\* key: Get(k) returns their values in order (none when there is none),
\* Count(k) is their number, Has(k) holds exactly when Count(k) > 0,
\* GetFirstOrZeroValue(k) is the value of the first and
\* GetLastOrZeroValue(k) the value of the last of them, the zero value when
\* k is absent; no query panics or changes the list.
C23_KeyedQueries ==
    LET vs == ValuesOfKey(plast.pre.List, plast.key)
    IN /\ plast.op \in KeyedQueries => ~plast.panic /\ pairList = plast.pre
       /\ plast.op = "Get" => plast.got[1] = vs
       /\ plast.op = "Count" => plast.got[1] = Len(vs)
       /\ plast.op = "Has" =>
             /\ plast.got[1] <=> Len(vs) > 0
             /\ plast.got[1] <=> Pairs_Count(plast.pre, plast.key) > 0
       /\ plast.op = "GetFirstOrZeroValue" =>
             plast.got[1] = IF vs = <<>> THEN ZeroValue ELSE vs[1]
       /\ plast.op = "GetLastOrZeroValue" =>
             plast.got[1] = IF vs = <<>> THEN ZeroValue ELSE vs[Len(vs)]

\* the key has two entries with different values and another key between them
C23_Witness ==
    /\ plast.op = "GetLastOrZeroValue"
    /\ Pairs_Len(plast.pre) = 3
    /\ plast.pre.List[1].Key = plast.key
    /\ plast.pre.List[2].Key # plast.key
    /\ plast.pre.List[3].Key = plast.key
    /\ plast.pre.List[1].Value # plast.pre.List[3].Value
    /\ plast.got = <<plast.pre.List[3].Value>>
    /\ plast.pre.List[3].Value # ZeroValue

\* C25: with no decode option given JSONUnmarshal decodes every JSON object
\* into a Map (not a Pairs) whose strategy is UpdateValueKeepOrder, and
\* every number into a float64.
C25_DefaultDecode ==
    (codec.op = "JSONUnmarshal" /\ codec.opts = DefaultDecodeOptions /\ codec.err = "nil") =>
        /\ FollowsOptions(codec.value,
                          [useNumber |-> FALSE, usePairs |-> FALSE,
                           duplicatedKeyStrategy |-> UpdateValueKeepOrder])
        /\ codec.doc.j = "obj" =>
              /\ codec.value.kind = "Map"
              /\ codec.value.map.duplicatedKeyStrategy = UpdateValueKeepOrder
        /\ codec.doc.j = "num" => codec.value.kind = "float64"

\* C26: after the top-level value decode looks at the rest of the text: when
\* a further token (anything but the end of the text) follows, JSONUnmarshal
\* fails with a syntax error and returns no value; it succeeds only when the
\* end of the text follows the top-level value.
C26_NothingAfterTopLevel ==
    codec.op = "JSONUnmarshal" =>
        /\ codec.trailer # <<>> => codec.err = "SyntaxError" /\ codec.value = Nil
        /\ codec.trailer = <<>> =>
              codec.err = "nil" /\ codec.value = ValueUnder(codec.doc, codec.opts)
        /\ codec.err = "nil" => codec.trailer = <<>>

\* an object with one member, a further number behind it
C26_Witness ==
    /\ codec.op = "JSONUnmarshal"
    /\ codec.doc.j = "obj"
    /\ Len(codec.doc.members) = 1
    /\ codec.trailer = <<Lex("num", Shortest(1))>>
    /\ codec.err = "SyntaxError"
    /\ codec.value = Nil

\* C27: a text whose first token does not open an object, decoded into a
\* Map or a Pairs, and a text whose first token does not open an array,
\* decoded into a List, fail with an UnmarshalTypeError and add no entry to
\* the container.
C27_UnmatchedType ==
    /\ (codec.op \in {"Map.UnmarshalJSON", "Pairs.UnmarshalJSON"} /\ codec.doc.j # "obj") =>
          codec.err = "UnmarshalTypeError" /\ codec.value = codec.target
    /\ (codec.op = "List.UnmarshalJSON" /\ codec.doc.j # "arr") =>
          codec.err = "UnmarshalTypeError" /\ codec.value = codec.target

\* a container that is not a nil pointer has been encoded
EncodedContainer(kinds) ==
    /\ codec.op = "json.Marshal"
    /\ codec.target.kind \in kinds
    /\ ~codec.target.isNil

C29_StringShapedKeys ==
    /\ EncodedContainer({"Map", "Pairs"}) =>
          IF underlyingIsString(codec.keyType)
          THEN codec.outErr = "nil"
          ELSE codec.outErr = "UnsupportedTypeError"
    /\ (codec.op \in {"Map.UnmarshalJSON", "Pairs.UnmarshalJSON"} /\ codec.doc.j = "obj") =>
          IF underlyingIsString(codec.keyType)
          THEN codec.err = "nil"
          ELSE codec.err = "UnmarshalTypeError"

\* C30: the encoding of a container that is not a nil pointer is never
\* null: a Map or Pairs with no entry encodes as {}, a List with no element,
\* on a nil slice or not, encodes as []; a nil pointer encodes as null.
C30_EmptyIsNotNull ==
    codec.op = "json.Marshal" =>
        /\ codec.target.isNil => codec.outErr = "nil" /\ codec.out = <<Lex("null", 0)>>
        /\ ~codec.target.isNil => codec.out # <<Lex("null", 0)>>
        /\ (EncodedContainer({"Map", "Pairs"}) /\ codec.keyType = "string"
              /\ Object_Len(codec.target.value) = 0) =>
              codec.outErr = "nil" /\ codec.out = <<Lex("{", 0), Lex("}", 0)>>
        /\ (EncodedContainer({"List"}) /\ codec.target.value.list.List = <<>>) =>
              codec.outErr = "nil" /\ codec.out = <<Lex("[", 0), Lex("]", 0)>>

C30_Witness ==
    /\ EncodedContainer({"List"})
    /\ codec.target.sliceIsNil
    /\ codec.out = <<Lex("[", 0), Lex("]", 0)>>

\* the values of the members of the container that has been encoded
MemberValues ==
    {Object_GetByIndex(codec.target.value, i).Value :
        i \in 0..(Object_Len(codec.target.value) - 1)}

\* C31: when the value of a member of a Map or a Pairs does not encode, the
\* encode of the container returns that failure and no bytes; when every
\* value encodes, it returns the object text and no failure.
C31_MemberFailureAborts ==
    (EncodedContainer({"Map", "Pairs"}) /\ codec.keyType = "string") =>
        IF InvalidNumber \in MemberValues
        THEN codec.outErr = "invalid number literal" /\ codec.out = <<>>
        ELSE codec.outErr = "nil" /\ codec.out # <<>>

C31_Witness ==
    /\ EncodedContainer({"Map", "Pairs"})
    /\ codec.keyType = "string"
    /\ Object_Len(codec.target.value) = 2
    /\ Object_GetByIndex(codec.target.value, 0).Value # InvalidNumber
    /\ Object_GetByIndex(codec.target.value, 1).Value = InvalidNumber
    /\ codec.outErr = "invalid number literal"
    /\ codec.out = <<>>

\* a decode of a text through one of the entries has returned
TextDecodedBy(entries) == codec.op = "Decode" /\ codec.entry \in entries

\* the text is a well-formed array: a document that is an array
ArrayText == codec.doc.j = "arr"

\* every element of the array has its element in the list, null as nil
ElementPerElement ==
    /\ codec.value.kind = "List"
    /\ Len(codec.value.list.List) = Len(codec.doc.elems)
    /\ \A i \in 1..Len(codec.doc.elems) :
          codec.doc.elems[i].j = "null" => codec.value.list.List[i].kind = "nil"

\* C34: the decode of a well-formed array into a List of untyped elements,
\* by JSONUnmarshal or by List.UnmarshalJSON, null elements included,
\* completes without fault and stores one element per JSON element, null
\* as nil.
C34_NullElements ==
    (TextDecodedBy({"JSONUnmarshal", "List"}) /\ codec.elemIsAny /\ ArrayText) =>
        codec.err = "nil" /\ ElementPerElement

\* the text has a number or null where a member name has to stand
NonStringKey(data) ==
    /\ data[1].t = "{"
    /\ \E i \in 1..(Len(data) - 1) :
          data[i].t \in {"{", ","} /\ data[i + 1].t \in {"num", "null"}

\* the container holds an entry under the key
HoldsKey(object, key) ==
    CASE object.kind = "Map" -> Map_Has(object.map, key)
      [] object.kind = "Pairs" -> Pairs_Has(object.pairs, key)
      [] OTHER -> FALSE

\* C35: the decode of an object whose text has a token that is no string
\* in key position fails with an error; no entry is added for that token,
\* none under the empty key, and when it is the first member name the
\* target holds what it held.
C35_NonStringKey ==
    (TextDecodedBy({"JSONUnmarshal", "Map", "Pairs"}) /\ codec.doc = Raw
        /\ NonStringKey(codec.data)) =>
        /\ codec.err \notin {"nil", "panic"}
        /\ ~HoldsKey(codec.value, EmptyString)
        /\ codec.entry = "JSONUnmarshal" => codec.value.kind = "nil"
        /\ codec.data[2].t # "str" => codec.value = codec.target

\* {"1":1,2:1} handed to UnmarshalJSON of a new Map: a syntax error at the 2,
\* and no entry under the empty key
C35_Witness ==
    /\ TextDecodedBy({"Map"}) /\ codec.direct /\ codec.doc = Raw
    /\ NonStringKey(codec.data)
    /\ codec.data[2].t = "str"
    /\ codec.target.map.order = <<>>
    /\ codec.err = "SyntaxError"
    /\ ~HoldsKey(codec.value, EmptyString)

\* C32: a decode that fails is not partially applied: JSONUnmarshal returns
\* no container, and the Map, Pairs or List that was the target holds
\* exactly what it held before the call.
C32_FailedDecodeNotApplied ==
    (TextDecodedBy(DecodeEntries) /\ codec.err # "nil") =>
        IF codec.entry = "JSONUnmarshal" THEN codec.value.kind = "nil"
        ELSE codec.value = codec.target

\* what a number or null of the text is as a value of any or of float64
DecodedScalar(jv, valueIsAny) ==
    IF jv.j = "num" THEN [kind |-> "float64", n |-> ParseFloat(jv.n)]
    ELSE IF valueIsAny THEN Nil ELSE ZeroFloat

Scalars(jvs) == \A i \in 1..Len(jvs) : jvs[i].j \in {"num", "null"}

\* the Map after Add of every member, in the order of the text
RECURSIVE AddDecoded(_, _, _)
AddDecoded(mp, members, valueIsAny) ==
    IF members = <<>> THEN mp
    ELSE AddDecoded(Map_Add(mp, Head(members).name,
                            DecodedScalar(Head(members).value, valueIsAny)),
                    Tail(members), valueIsAny)

DecodedPairs(members, valueIsAny) ==
    [i \in 1..Len(members) |->
        CreatePair(members[i].name, DecodedScalar(members[i].value, valueIsAny))]

\* a decode of a document into a Map, Pairs or List has succeeded
DecodedInto(entry) ==
    TextDecodedBy({entry}) /\ codec.err = "nil" /\ codec.doc # Raw

\* C33: after a successful decode a Map holds what Add of every decoded
\* member, in the order of the text, makes of its previous content (a key
\* it already held is resolved by its strategy); a Pairs holds its
\* previous entries followed by the decoded members; a List holds the
\* decoded elements and none of its previous ones.
C33_DecodeIntoContent ==
    /\ DecodedInto("Map") =>
          /\ codec.doc.j = "obj" /\ Scalars([i \in 1..Len(codec.doc.members) |->
                                                codec.doc.members[i].value])
          /\ codec.value.map = AddDecoded(codec.target.map, codec.doc.members,
                                          codec.elemIsAny)
    /\ DecodedInto("Pairs") =>
          /\ codec.doc.j = "obj"
          /\ codec.value.pairs.List =
                codec.target.pairs.List \o DecodedPairs(codec.doc.members, codec.elemIsAny)
    /\ (DecodedInto("List") /\ Scalars(codec.doc.elems)) =>
          /\ codec.doc.j = "arr"
          /\ codec.value.list.List =
                [i \in 1..Len(codec.doc.elems) |->
                    DecodedScalar(codec.doc.elems[i], codec.elemIsAny)]

\* every key of the hash table stands once in the order, and the order
\* holds nothing else
Bijection(mp) == NoDuplicates(mp.order) /\ Range(mp.order) = DOMAIN mp.inner

\* no goroutine is inside a call and the program has not been ended
RaceQuiet ==
    ~race.crashed /\ \A p \in Goroutines : ~MidCall(race.procs[p])

\* two Set calls for the same key have returned; each saw the key absent,
\* and one of them read the order when the other had appended the key
SetTwiceAfterCheck ==
    /\ RaceQuiet
    /\ \A p \in Goroutines :
          /\ race.procs[p].pc = "done" /\ race.procs[p].op = "Set"
          /\ ~race.procs[p].alreadyExist
    /\ race.procs[1].key = race.procs[2].key
    /\ \E p \in Goroutines : race.procs[p].key \in Range(race.procs[p].local)

\* C36: two Set or Add calls on one Map that run without a lock can leave
\* the Map with the bijection between order and hash table broken.  Two
\* Set calls for the same new key that both pass the existence check
\* before either appends, and append one after the other, leave the key
\* twice in the order; and the bijection is broken only when the steps of
\* the calls interleave: calls that run one after the other keep it.
C36_BrokenOnlyByInterleaving ==
    /\ SetTwiceAfterCheck => ~Bijection(race.m)
    /\ (RaceQuiet /\ ~Bijection(race.m)) => race.interleaved

\* Both goroutines have Set the same new key and returned: both saw it
\* absent, both appended it, the order holds it twice and the hash table
\* once.
C36_Witness ==
    /\ RaceQuiet
    /\ race.interleaved
    /\ \A p \in Goroutines : race.procs[p].pc = "done" /\ race.procs[p].op = "Set"
    /\ race.procs[1].key = race.procs[2].key
    /\ \A p \in Goroutines : ~race.procs[p].alreadyExist
    /\ race.m.order = <<race.procs[1].key, race.procs[1].key>>
    /\ DOMAIN race.m.inner = {race.procs[1].key}
    /\ ~Bijection(race.m)

\* a decode call is running; it has returned a value; it has returned an
\* error
RunStarted == run.pc \notin {"idle", "done", "failed"}
RunDone == run.pc = "done" /\ run.err = "nil"
RunError == run.pc = "failed" /\ run.err # "nil"

\* the call ends as the decode of the whole text ends
RunAgrees ==
    (run.pc \in {"done", "failed"} /\ run.entry = "JSONUnmarshal") =>
        run.err = JSONUnmarshal(run.d.data, DefaultDecodeOptions).err

Returned == {"Keys", "Values", "Pairs"}
ReturnedAndChanged == {"Keys; changed", "Values; changed", "Pairs; changed"}

\* C20: Keys(), Values() and Pairs() each return a newly allocated sequence
\* of the keys / values / pairs in the current order with exactly Len()
\* elements; overwriting an element of, appending to or deleting from the
\* returned sequence changes neither the map nor what Keys(), Values() and
\* Pairs() return afterwards.
C20_CopiesHandedOut ==
    /\ last.op \in Returned =>
          /\ ~last.ret.shared
          /\ Len(last.ret.elems) = Map_Len(m)
          /\ m = last.pre
    /\ last.op = "Keys" => last.ret.elems = m.order
    /\ last.op = "Values" =>
          \A i \in 1..Len(m.order) : last.ret.elems[i] = m.inner[m.order[i]]
    /\ last.op = "Pairs" => last.ret.elems = PairsOfMap(m)
    /\ last.op \in ReturnedAndChanged =>
          /\ m = last.pre
          /\ Map_KeysSlice(m).elems = Map_KeysSlice(last.pre).elems
          /\ Map_Values(m) = Map_Values(last.pre)
          /\ Map_Pairs(m) = Map_Pairs(last.pre)
    /\ last.op = "Keys; changed" => Map_KeysSlice(m).elems = last.made

C20_Witness ==
    /\ last.op = "Keys; changed"
    /\ Len(last.made) = 3
    /\ Len(last.ret.elems) = 3
    /\ last.ret.elems[1] # last.made[1]
    /\ m.order = last.made

====
